---- MODULE Spec2Model ----
(***************************************************************************)
(* Message-management core of the mail store: MessageHandler.add, del,     *)
(* move, update (lib/message-handler.js) and the IMAP COPY hook            *)
(* (lib/handlers/on-copy.js), as concurrent callback chains over the       *)
(* shared collections mailboxes, messages, users, journal and the          *)
(* attachment store.  Every database round trip is one step of a caller.   *)
(***************************************************************************)
EXTENDS Integers, Sequences, FiniteSets, TLC

\* ---------------------------------------------------------------- bounds
\* number of handler invocations started in one behaviour
MaxOps == 2
\* number of database calls that report an error in one behaviour
MaxFaults == 1
\* consts.BULK_BATCH_SIZE scaled down (the deployed value is 150) so that
\* a batch boundary is crossed by the message sets of this model
BULK_BATCH_SIZE == 2
\* consts.MAX_HTML_CONTENT scaled down to a few bytes, so that the HTML parts of
\* this model reach and cross the budget
MAX_HTML_CONTENT == 3
\* number of HTML parts of one message, and characters of one part
MaxParts == 3
MaxPartLen == 3

\* ------------------------------------------------------------- universe
Procs == {"p1", "p2"}

UserId == "u1"

\* the id of a mailbox document that is not (any more) in the collection;
\* a caller may still hold a record of it
GoneId == "m0"

NoMb == [id |-> "none"]
NoMsg == [id |-> 0]
NoPre == [valid |-> FALSE]

GoneMailbox ==
    [id |-> GoneId, user |-> UserId, path |-> "Gone", uidValidity |-> 9,
     uidNext |-> 2, modifyIndex |-> 2, specialUse |-> ""]

NoRaw == [hdate |-> 0, msgid |-> "", size |-> 0, att |-> {}]

AttIds == {"a1"}

VARIABLES
    mailboxes,      \* collection mailboxes: id -> document
    messages,       \* collection messages: set of documents
    storageUsed,    \* collection users: user id -> storageUsed
    attachments,    \* attachment store: <<attachment id, magic>> -> refcount of the record
    journal,        \* collection journal of the user, in _id order
    proc,           \* per caller: the handler it runs, its position, its locals
    streams,        \* per session: the frames written to its writeStream
    sse,            \* the request of one SSE client of the user: closure variables,
                    \* the drain in flight, the frames written to the response
    threads,        \* collection threads of the user, in insertion order
    adds,           \* the adds that resolve a thread: per caller its position and
                    \* locals, and the messages stored with their thread
    conn,           \* one IMAP connection: its options, its state and session, the
                    \* onAuth calls in flight, what it replied
    html,           \* the HTML parts of one message add is given, and the list it
                    \* stores as messageData.html
    nextId,         \* next ObjectID
    ops,            \* handler invocations started so far
    faults          \* database errors injected so far

vars == <<mailboxes, messages, storageUsed, attachments, journal, streams, proc, sse,
          threads, adds, conn, html, nextId, ops, faults>>

\* the variables no operation of the message handler touches
side == <<sse, threads, adds, conn, html>>

\* ------------------------------------------------------- store primitives

\* collection('mailboxes').findOne({_id})
FindMailbox(mbs, id) == IF id \in DOMAIN mbs THEN mbs[id] ELSE NoMb

\* an $inc that leaves uidNext out
IncMailboxModseqOnly(mbs, id, dUid, dMod) ==
    IF id \in DOMAIN mbs
    THEN [mbs EXCEPT ![id].modifyIndex = @ + dMod]
    ELSE mbs

\* collection('mailboxes').findOneAndUpdate({_id}, {$inc: {uidNext, modifyIndex}})
IncMailbox(mbs, id, dUid, dMod) ==
    IF id \in DOMAIN mbs
    THEN [mbs EXCEPT ![id].uidNext = @ + dUid, ![id].modifyIndex = @ + dMod]
    ELSE mbs

\* collection('mailboxes') matched by {_id, user}
FindMailboxOfUser(mbs, id, user) ==
    IF id \in DOMAIN mbs /\ mbs[id].user = user THEN mbs[id] ELSE NoMb

\* collection('users').findOneAndUpdate({_id: user}, {$inc: {storageUsed}})
IncStorage(su, user, n) ==
    IF user \in DOMAIN su THEN [su EXCEPT ![user] = @ + n] ELSE su

\* a probe that compares the date header only
DuplicatesByDate(msgs, mb, raw) ==
    { m \in msgs : /\ m.mailbox = mb.id
                   /\ m.hdate = raw.hdate
                   /\ m.uid > 0
                   /\ m.uid < mb.uidNext }

\* the duplicate probe's query
Duplicates(msgs, mb, raw) ==
    { m \in msgs : /\ m.mailbox = mb.id
                   /\ m.hdate = raw.hdate
                   /\ m.msgid = raw.msgid
                   /\ m.uid > 0
                   /\ m.uid < mb.uidNext }

\* the records of the attachments ids of the delivery with salt magic
AttKeys(ids, magic) == { <<a, magic>> : a \in ids }

\* attachment store: create(hash, magic, data), refCount = 1 or $inc by 1
AttStore(att, ids, magic) ==
    [k \in DOMAIN att \cup AttKeys(ids, magic) |->
        IF k \in AttKeys(ids, magic)
        THEN (IF k \in DOMAIN att THEN att[k] + 1 ELSE 1)
        ELSE att[k]]

\* attachmentStorage.updateMany(ids, count, magic): $inc of the records that exist
AttUpdateMany(att, ids, n, magic) ==
    [k \in DOMAIN att |-> IF k \in AttKeys(ids, magic) THEN att[k] + n ELSE att[k]]

\* attachmentStorage.deleteMany(ids, magic): decrement, delete the records
\* whose refcount reaches 0
AttDeleteMany(att, ids, magic) ==
    LET dec == [k \in DOMAIN att |-> IF k \in AttKeys(ids, magic) THEN att[k] - 1 ELSE att[k]]
    IN  [k \in { j \in DOMAIN att : dec[j] > 0 } |-> dec[k]]

\* ------------------------------------------------------------- notifier

\* the mailbox a scope of addEntries names: a mailbox record, or user + path
ResolveScope(mbs, scope) ==
    IF scope.kind = "mailbox"
    THEN FindMailbox(mbs, scope.mailbox.id)
    ELSE LET hit == { i \in DOMAIN mbs : mbs[i].user = scope.user /\ mbs[i].path = scope.path }
         IN  IF hit = {} THEN NoMb ELSE mbs[CHOOSE i \in hit : TRUE]

MailboxScope(mb) == [kind |-> "mailbox", mailbox |-> mb]
UserPathScope(user, path) == [kind |-> "userpath", user |-> user, path |-> path]

\* entries that carry no modseq for a message now stored: the notifier assigns one
NeedsModseq(entries) ==
    { i \in 1..Len(entries) : entries[i].command = "EXISTS" /\ entries[i].modseq = 0 }

\* mailboxes collection after addEntries(scope, _, entries)
NotifierMailboxes(mbs, scope, entries) ==
    LET mb == ResolveScope(mbs, scope)
    IN  IF mb = NoMb \/ NeedsModseq(entries) = {} THEN mbs
        ELSE IncMailbox(mbs, mb.id, 0, 1)

\* journal after addEntries(scope, _, entries)
NotifierJournal(jr, mbs, scope, entries) ==
    LET mb == ResolveScope(mbs, scope)
    IN  IF mb = NoMb THEN jr
        ELSE LET modseq == NotifierMailboxes(mbs, scope, entries)[mb.id].modifyIndex
             IN  jr \o [i \in 1..Len(entries) |->
                          [entries[i] EXCEPT !.mailbox = mb.id,
                                             !.modseq = IF @ = 0 THEN modseq ELSE @]]

\* messages collection after addEntries(scope, _, entries)
NotifierMessages(msgs, mbs, scope, entries) ==
    LET mb == ResolveScope(mbs, scope)
        ids == { entries[i].message : i \in NeedsModseq(entries) }
    IN  IF mb = NoMb \/ ids = {} THEN msgs
        ELSE LET modseq == NotifierMailboxes(mbs, scope, entries)[mb.id].modifyIndex
             IN  { IF m.id \in ids /\ m.mailbox = mb.id THEN [m EXCEPT !.modseq = modseq] ELSE m
                   : m \in msgs }

\* a journal entry as a handler hands it to addEntries (modseq 0: none given,
\* ignore "": no session to withhold it from)
Entry(command, uid, message, modseq, unseen) ==
    [command |-> command, mailbox |-> "", uid |-> uid, message |-> message,
     modseq |-> modseq, unseen |-> unseen, flags |-> {}, unseenChange |-> FALSE,
     ignore |-> ""]

\* the FETCH entry of update
FetchEntry(uid, message, flags, unseenChange) ==
    [command |-> "FETCH", mailbox |-> "", uid |-> uid, message |-> message,
     modseq |-> 0, unseen |-> FALSE, flags |-> flags, unseenChange |-> unseenChange,
     ignore |-> ""]

\* ---------------------------------------------------------------- sessions

\* options.session: absent, or a live IMAP session with its selected mailbox
NoSession == [id |-> "", selected |-> ""]
Sessions ==
    { [id |-> "s1", selected |-> "INBOX"],
      [id |-> "s2", selected |-> "Trash"] }
SessionIds == { s.id : s \in Sessions }

\* options.session && options.session.selected
\*     && options.session.selected.mailbox === mailboxData.path
Selected(session, mb) == session.id # "" /\ session.selected = mb.path

\* entries that name no session
IgnoreNone(session) == ""

\* ignore: options.session && options.session.id
Ignore(session) == session.id

\* notifier: the journal entries handed to the listener of session sid, in
\* journal order; an entry whose ignore is sid is withheld
Delivered(jr, sid) == SelectSeq(jr, LAMBDA e : e.ignore # sid)

\* options.session.writeStream.write(options.session.formatResponse(command, uid))
\* for every frame of frames, when the session has the mailbox selected
Write(st, session, mb, frames) ==
    IF Selected(session, mb) THEN [st EXCEPT ![session.id] = @ \o frames] ELSE st

\* session.formatResponse(command, uid): the frame names the UIDs it was given,
\* one UID or the elements of an array
Frame(command, uid) == [command |-> command, uid |-> <<uid>>]
FrameOfAll(command, uids) == [command |-> command, uid |-> uids]

\* if (options.session) options.session.writeStream.write(...)
WriteAny(st, session, frames) ==
    IF session.id # "" THEN [st EXCEPT ![session.id] = @ \o frames] ELSE st

\* ---------------------------------------------------------------- callers

NoChanges == [k \in {} |-> TRUE]

Idle ==
    [op |-> "none", pc |-> "idle", target |-> NoMb, mb |-> NoMb, dest |-> NoMb,
     raw |-> NoRaw, skip |-> FALSE, flags |-> {}, session |-> NoSession, id |-> 0,
     existing |-> NoMsg, uid |-> 0, modseq |-> 0, msg |-> NoMsg,
     changes |-> NoChanges, query |-> {}, opened |-> FALSE, cur |-> <<>>,
     sourceUid |-> <<>>, destinationUid |-> <<>>,
     removeEntries |-> <<>>, existsEntries |-> <<>>, notifyEntries |-> <<>>,
     count |-> 0, copiedStorage |-> 0, fin |-> FALSE, calls |-> <<>>,
     quota |-> FALSE, err |-> "", status |-> "", resUid |-> 0, resId |-> 0,
     callbacks |-> 0, pre |-> NoPre]

\* what a caller can observe right before it invokes a handler
Snapshot ==
    [valid |-> TRUE, mailboxes |-> mailboxes, messages |-> messages,
     storageUsed |-> storageUsed, attachments |-> attachments, jlen |-> Len(journal),
     streams |-> streams]

OthersIdle(p) == \A q \in Procs \ {p} : proc[q].pc = "idle"

\* p starts a handler: callers that are in flight no longer run alone
Started(p, rec) ==
    [q \in Procs |->
        IF q = p THEN [rec EXCEPT !.pre = IF OthersIdle(p) THEN Snapshot ELSE NoPre]
        ELSE IF proc[q].pc = "idle" THEN proc[q]
        ELSE [proc[q] EXCEPT !.pre = NoPre]]

CanFail == faults < MaxFaults

\* callback(err)
Failed(p, e) == [proc EXCEPT ![p].pc = "done", ![p].callbacks = @ + 1, ![p].err = e, ![p].status = "error"]

RawX == [hdate |-> 1, msgid |-> "x", size |-> 2, att |-> {"a1"}]
RawY == [hdate |-> 1, msgid |-> "y", size |-> 3, att |-> {}]

\* the values of the post-image taken for those of the pre-image
ReservedUidPost(mb) == mb.uidNext + 1
ReservedModseqStale(mb) == mb.modifyIndex

\* reservation of the next UID and MODSEQ: the values handed out by $inc
ReservedUid(mb) == mb.uidNext
ReservedModseq(mb) == mb.modifyIndex + 1

\* the message document add inserts into the mailbox whose slot it reserved
NewMessage(id, raw, flags, mb) ==
    [id |-> id, root |-> id, magic |-> id, mailbox |-> mb.id, user |-> mb.user,
     uid |-> ReservedUid(mb), modseq |-> ReservedModseq(mb),
     hdate |-> raw.hdate, msgid |-> raw.msgid, size |-> raw.size, att |-> raw.att,
     flags |-> flags,
     unseen |-> ~("\\Seen" \in flags),
     flagged |-> "\\Flagged" \in flags,
     undeleted |-> ~("\\Deleted" \in flags),
     draft |-> "\\Draft" \in flags,
     searchable |-> ~(mb.specialUse \in {"\\Junk", "\\Trash"}) /\ ~("\\Deleted" \in flags),
     junk |-> mb.specialUse = "\\Junk"]

\* no loadJournalStream in flight
NoDrain ==
    [by |-> "none", pc |-> "none", opened |-> FALSE, cur |-> <<>>, lastEventId |-> 0,
     processed |-> 0, mailboxes |-> <<>>, todo |-> <<>>]

\* the caller resolves no thread
NoResolve ==
    [pc |-> "idle", subject |-> <<>>, referenceIds |-> <<>>, thread |-> 0, err |-> ""]

\* no add has resolved a thread yet
NoAdds == [proc |-> [p \in Procs |-> NoResolve], stored |-> {}]

\* no message has been parsed yet
NoParts == [pc |-> "none", parts |-> <<>>, stored |-> <<>>]

\* no client has connected yet
NoConnection ==
    [pc |-> "none", secure |-> FALSE,
     options |-> [disableSTARTTLS |-> FALSE, ignoreSTARTTLS |-> FALSE, onAuth |-> FALSE],
     state |-> "Not Authenticated", user |-> "", nextHandler |-> FALSE, paused |-> FALSE,
     pending |-> <<>>, invoked |-> <<>>, commands |-> 0, sent |-> <<>>, log |-> <<>>]

\* no request of the SSE client yet
NoRequest ==
    [pc |-> "none", resume |-> 0, lastEventId |-> 0, closed |-> FALSE, finished |-> FALSE,
     listeners |-> 0, removed |-> 0, ends |-> 0, idleTimer |-> FALSE, idleCounter |-> 0,
     journalReading |-> FALSE, dropped |-> FALSE, drain |-> NoDrain, out |-> <<>>,
     base |-> 0, poked |-> 0]

\* The store after one delivery (id and magic 1): add of RawX with no flags into INBOX at tip
\* (4, 9) stored message 1 under UID 4 with modseq 10; Trash is empty.
Init ==
    /\ mailboxes =
         [i \in {"m1", "m2"} |->
            IF i = "m1"
            THEN [id |-> "m1", user |-> UserId, path |-> "INBOX", uidValidity |-> 1,
                  uidNext |-> 5, modifyIndex |-> 10, specialUse |-> ""]
            ELSE [id |-> "m2", user |-> UserId, path |-> "Trash", uidValidity |-> 2,
                  uidNext |-> 3, modifyIndex |-> 4, specialUse |-> "\\Trash"]]
    /\ messages =
         { NewMessage(1, RawX, {},
                      [id |-> "m1", user |-> UserId, path |-> "INBOX", uidValidity |-> 1,
                       uidNext |-> 4, modifyIndex |-> 9, specialUse |-> ""]) }
    /\ storageUsed = [u \in {UserId} |-> RawX.size]
    /\ attachments = [k \in AttKeys(RawX.att, 1) |-> 1]
    /\ journal = << [Entry("EXISTS", 4, 1, 10, TRUE) EXCEPT !.mailbox = "m1"] >>
    /\ streams = [s \in SessionIds |-> <<>>]
    /\ proc = [p \in Procs |-> Idle]
    /\ sse = NoRequest
    /\ threads = <<>>
    /\ adds = NoAdds
    /\ conn = NoConnection
    /\ html = NoParts
    /\ nextId = 2
    /\ ops = 0
    /\ faults = 0

\* ------------------------------------------------------ MessageHandler.add

\* the calls of add: the delivery, options.mailbox (a mailbox id, or a mailbox
\* record the caller holds), options.skipExisting and options.flags
AddCalls ==
    { [raw |-> RawX, target |-> [id |-> "m1"], skip |-> FALSE, flags |-> {"\\Seen"},
       session |-> [id |-> "s1", selected |-> "INBOX"]],
      [raw |-> RawX, target |-> [id |-> "m1"], skip |-> TRUE, flags |-> {},
       session |-> NoSession],
      [raw |-> RawY, target |-> [id |-> "m1"], skip |-> FALSE, flags |-> {},
       session |-> [id |-> "s1", selected |-> "INBOX"]],
      [raw |-> RawY, target |-> [id |-> "m1"], skip |-> FALSE, flags |-> {},
       session |-> [id |-> "s2", selected |-> "Trash"]],
      [raw |-> RawY, target |-> [id |-> "m1"], skip |-> TRUE, flags |-> {},
       session |-> NoSession],
      [raw |-> RawX, target |-> GoneMailbox, skip |-> FALSE, flags |-> {},
       session |-> NoSession] }

\* of the idle callers, the first one takes the next invocation
FirstIdle(p) == proc[p].pc = "idle" /\ (p = "p1" \/ proc["p1"].pc # "idle")

AddBegin(p) ==
    /\ FirstIdle(p)
    /\ ops < MaxOps
    /\ \E c \in AddCalls :
         proc' = Started(p, [Idle EXCEPT !.op = "add", !.pc = "getMailbox",
                                         !.target = c.target, !.raw = c.raw,
                                         !.skip = c.skip, !.flags = c.flags,
                                         !.session = c.session, !.id = nextId])
    /\ nextId' = nextId + 1
    /\ ops' = ops + 1
    /\ UNCHANGED <<mailboxes, messages, storageUsed, attachments, journal, faults,
                 streams, side>>

\* getMailbox(options): a record is returned as it is, an id is looked up
GetMailbox(p, nextPc) ==
    LET t == proc[p].target
    IN  IF "user" \in DOMAIN t
        THEN /\ proc' = [proc EXCEPT ![p].mb = t, ![p].pc = nextPc]
             /\ UNCHANGED faults
        ELSE \/ /\ CanFail
                /\ faults' = faults + 1
                /\ proc' = Failed(p, "db")
             \/ /\ UNCHANGED faults
                /\ IF FindMailbox(mailboxes, t.id) = NoMb
                   THEN proc' = Failed(p, "TRYCREATE")
                   ELSE proc' = [proc EXCEPT ![p].mb = FindMailbox(mailboxes, t.id),
                                             ![p].pc = nextPc]

AddGetMailbox(p) ==
    /\ proc[p].op = "add"
    /\ proc[p].pc = "getMailbox"
    /\ GetMailbox(p, "probe")
    /\ UNCHANGED <<mailboxes, messages, storageUsed, attachments, journal, nextId, ops,
                 streams, side>>

\* checkExistingMessage: the duplicate probe
AddProbe(p) ==
    /\ proc[p].op = "add"
    /\ proc[p].pc = "probe"
    /\ \/ /\ CanFail
          /\ faults' = faults + 1
          /\ proc' = Failed(p, "db")
       \/ /\ UNCHANGED faults
          /\ LET found == Duplicates(messages, proc[p].mb, proc[p].raw)
             IN  IF found = {}
                 THEN proc' = [proc EXCEPT ![p].pc = "storeBodies"]
                 ELSE \E e \in found :
                        IF proc[p].skip
                        THEN proc' = [proc EXCEPT ![p].pc = "done", ![p].callbacks = @ + 1, ![p].status = "skip",
                                                  ![p].resUid = e.uid, ![p].resId = e.id]
                        ELSE proc' = [proc EXCEPT ![p].pc = "replReserve", ![p].existing = e]
    /\ UNCHANGED <<mailboxes, messages, storageUsed, attachments, journal, nextId, ops,
                 streams, side>>

\* checkExistingMessage: acquire new UID+MODSEQ for the duplicate
AddReplReserve(p) ==
    /\ proc[p].op = "add"
    /\ proc[p].pc = "replReserve"
    /\ \/ /\ CanFail
          /\ faults' = faults + 1
          /\ proc' = Failed(p, "db")
          /\ UNCHANGED mailboxes
       \/ /\ UNCHANGED faults
          /\ LET item == FindMailbox(mailboxes, proc[p].mb.id)
             IN  IF item = NoMb
                 THEN /\ proc' = Failed(p, "TRYCREATE")
                      /\ UNCHANGED mailboxes
                 ELSE /\ mailboxes' = IncMailbox(mailboxes, item.id, 1, 1)
                      /\ proc' = [proc EXCEPT ![p].pc = "replUpdate", ![p].mb = item,
                                              ![p].uid = ReservedUid(item),
                                              ![p].modseq = ReservedModseq(item)]
    /\ UNCHANGED <<messages, storageUsed, attachments, journal, nextId, ops, streams, side>>

\* the document the replace-in-place update matches
ReplMatch(msgs, e, mb) ==
    { m \in msgs : m.id = e.id /\ m.mailbox = mb.id /\ m.uid = e.uid }

\* checkExistingMessage: rewrite the duplicate in place
AddReplUpdate(p) ==
    /\ proc[p].op = "add"
    /\ proc[p].pc = "replUpdate"
    /\ \/ /\ CanFail
          /\ faults' = faults + 1
          /\ proc' = Failed(p, "db")
          /\ UNCHANGED messages
       \/ /\ UNCHANGED faults
          /\ LET hit == ReplMatch(messages, proc[p].existing, proc[p].mb)
             IN  IF hit = {}
                 THEN \* "message was not found for whatever reason": callback()
                      /\ proc' = [proc EXCEPT ![p].pc = "storeBodies"]
                      /\ UNCHANGED messages
                 ELSE \E m \in hit :
                        LET updated == [m EXCEPT !.uid = proc[p].uid,
                                                 !.modseq = proc[p].modseq,
                                                 !.flags = proc[p].flags]
                        IN  /\ messages' = (messages \ {m}) \cup {updated}
                            /\ proc' = [proc EXCEPT ![p].pc = "replExpunge", ![p].msg = updated]
    /\ UNCHANGED <<mailboxes, storageUsed, attachments, journal, nextId, ops, streams, side>>

\* notifier.addEntries(scope, false, entries, cb)
AddEntries(scope, entries) ==
    /\ journal' = NotifierJournal(journal, mailboxes, scope, entries)
    /\ mailboxes' = NotifierMailboxes(mailboxes, scope, entries)
    /\ messages' = NotifierMessages(messages, mailboxes, scope, entries)

\* the EXPUNGE and EXISTS frames of the session, then the EXPUNGE entry
AddReplExpunge(p) ==
    /\ proc[p].op = "add"
    /\ proc[p].pc = "replExpunge"
    /\ streams' = Write(streams, proc[p].session, proc[p].mb,
                        <<Frame("EXPUNGE", proc[p].existing.uid),
                          Frame("EXISTS", proc[p].msg.uid)>>)
    /\ AddEntries(MailboxScope(proc[p].mb),
                  <<[Entry("EXPUNGE", proc[p].existing.uid, proc[p].existing.id, 0,
                           proc[p].existing.unseen)
                       EXCEPT !.ignore = Ignore(proc[p].session)]>>)
    /\ proc' = [proc EXCEPT ![p].pc = "replExists"]
    /\ UNCHANGED <<storageUsed, attachments, nextId, ops, faults, side>>

AddReplExists(p) ==
    /\ proc[p].op = "add"
    /\ proc[p].pc = "replExists"
    /\ AddEntries(MailboxScope(proc[p].mb),
                  <<[Entry("EXISTS", proc[p].msg.uid, proc[p].msg.id, proc[p].msg.modseq,
                           proc[p].msg.unseen)
                       EXCEPT !.ignore = Ignore(proc[p].session)]>>)
    /\ proc' = [proc EXCEPT ![p].pc = "done", ![p].callbacks = @ + 1, ![p].status = "update",
                            ![p].resUid = proc[p].uid, ![p].resId = proc[p].existing.id]
    /\ UNCHANGED <<storageUsed, attachments, nextId, ops, faults, streams, side>>

\* cleanup(err): release the attachments of the failed delivery, then callback(err)
Cleanup(p, e) ==
    IF proc[p].raw.att = {}
    THEN Failed(p, e)
    ELSE [proc EXCEPT ![p].pc = "cleanup", ![p].err = e]

\* rollback(err): give the quota back, then cleanup(err)
Rollback(p, e) == [proc EXCEPT ![p].pc = "rollback", ![p].err = e]

\* indexer.storeNodeBodies
AddStoreBodies(p) ==
    /\ proc[p].op = "add"
    /\ proc[p].pc = "storeBodies"
    /\ \/ /\ CanFail
          /\ faults' = faults + 1
          /\ proc' = Cleanup(p, "db")
          /\ UNCHANGED attachments
       \/ /\ UNCHANGED faults
          /\ attachments' = AttStore(attachments, proc[p].raw.att, proc[p].id)
          /\ proc' = [proc EXCEPT ![p].pc = "incQuota"]
    /\ UNCHANGED <<mailboxes, messages, storageUsed, journal, nextId, ops, streams, side>>

AddIncQuota(p) ==
    /\ proc[p].op = "add"
    /\ proc[p].pc = "incQuota"
    /\ \/ /\ CanFail
          /\ faults' = faults + 1
          /\ proc' = Cleanup(p, "db")
          /\ UNCHANGED storageUsed
       \/ /\ UNCHANGED faults
          /\ storageUsed' = IncStorage(storageUsed, proc[p].mb.user, proc[p].raw.size)
          /\ proc' = [proc EXCEPT ![p].pc = "reserve", ![p].quota = TRUE]
    /\ UNCHANGED <<mailboxes, messages, attachments, journal, nextId, ops, streams, side>>

\* acquire new UID+MODSEQ
AddReserve(p) ==
    /\ proc[p].op = "add"
    /\ proc[p].pc = "reserve"
    /\ \/ /\ CanFail
          /\ faults' = faults + 1
          /\ proc' = Rollback(p, "db")
          /\ UNCHANGED mailboxes
       \/ /\ UNCHANGED faults
          /\ LET item == FindMailbox(mailboxes, proc[p].mb.id)
             IN  IF item = NoMb
                 THEN /\ proc' = Rollback(p, "TRYCREATE")
                      /\ UNCHANGED mailboxes
                 ELSE /\ mailboxes' = IncMailbox(mailboxes, item.id, 1, 1)
                      /\ proc' = [proc EXCEPT ![p].pc = "thread", ![p].mb = item,
                                              ![p].uid = ReservedUid(item),
                                              ![p].modseq = ReservedModseq(item),
                                              ![p].msg = NewMessage(proc[p].id, proc[p].raw,
                                                                    proc[p].flags, item)]
    /\ UNCHANGED <<messages, storageUsed, attachments, journal, nextId, ops, streams, side>>

\* getThreadId
AddThread(p) ==
    /\ proc[p].op = "add"
    /\ proc[p].pc = "thread"
    /\ \/ /\ CanFail
          /\ faults' = faults + 1
          /\ proc' = Rollback(p, "db")
       \/ /\ UNCHANGED faults
          /\ proc' = [proc EXCEPT ![p].pc = "insert"]
    /\ UNCHANGED <<mailboxes, messages, storageUsed, attachments, journal, nextId, ops,
                 streams, side>>

\* collection('messages').insertOne(messageData)
AddInsert(p) ==
    /\ proc[p].op = "add"
    /\ proc[p].pc = "insert"
    /\ \/ /\ CanFail
          /\ faults' = faults + 1
          /\ proc' = Rollback(p, "db")
          /\ UNCHANGED messages
       \/ /\ UNCHANGED faults
          /\ messages' = messages \cup {proc[p].msg}
          /\ proc' = [proc EXCEPT ![p].pc = "notify"]
    /\ UNCHANGED <<mailboxes, storageUsed, attachments, journal, nextId, ops, streams, side>>

\* the EXISTS frame of the session and the EXISTS journal entry, then
\* cleanup(null, true, {..., status: 'new'})
AddNotify(p) ==
    /\ proc[p].op = "add"
    /\ proc[p].pc = "notify"
    /\ streams' = Write(streams, proc[p].session, proc[p].mb,
                        <<Frame("EXISTS", proc[p].msg.uid)>>)
    /\ AddEntries(MailboxScope(proc[p].mb),
                  <<[Entry("EXISTS", proc[p].msg.uid, proc[p].msg.id, proc[p].msg.modseq,
                           proc[p].msg.unseen)
                       EXCEPT !.ignore = Ignore(proc[p].session)]>>)
    /\ proc' = [proc EXCEPT ![p].pc = "done", ![p].callbacks = @ + 1, ![p].status = "new",
                            ![p].resUid = proc[p].msg.uid, ![p].resId = proc[p].msg.id]
    /\ UNCHANGED <<storageUsed, attachments, nextId, ops, faults, side>>

\* a rollback that forgets the quota, and one that hands the UID back
RollbackStorageNone(su, user, size) == su
RollbackMailboxesRelease(mbs, id) == IncMailbox(mbs, id, -1, -1)

\* what rollback leaves of the users and mailboxes collections
RollbackStorage(su, user, size) == IncStorage(su, user, -size)
RollbackMailboxes(mbs, id) == mbs

AddRollback(p) ==
    /\ proc[p].op = "add"
    /\ proc[p].pc = "rollback"
    /\ storageUsed' = RollbackStorage(storageUsed, proc[p].mb.user, proc[p].raw.size)
    /\ mailboxes' = RollbackMailboxes(mailboxes, proc[p].mb.id)
    /\ proc' = Cleanup(p, proc[p].err)
    /\ UNCHANGED <<messages, attachments, journal, nextId, ops, faults, streams, side>>

AddCleanup(p) ==
    /\ proc[p].op = "add"
    /\ proc[p].pc = "cleanup"
    /\ attachments' = AttDeleteMany(attachments, proc[p].raw.att, proc[p].id)
    /\ proc' = Failed(p, proc[p].err)
    /\ UNCHANGED <<mailboxes, messages, storageUsed, journal, nextId, ops, faults,
                 streams, side>>

\* the caller's callback has run
Return(p) ==
    /\ proc[p].pc = "done"
    /\ proc' = [proc EXCEPT ![p] = Idle]
    /\ UNCHANGED <<mailboxes, messages, storageUsed, attachments, journal, nextId, ops,
                 faults, streams, side>>

\* ------------------------------------------------------ MessageHandler.del

\* mailboxData._id: an ObjectID, which has no user and no path
ObjectId(mb) == [oid |-> mb.id]

\* updateQuota(mailboxData, inc): $inc storageUsed of the user mailboxData.user
UpdateQuota(su, mailboxData, n) ==
    IncStorage(su, IF "user" \in DOMAIN mailboxData THEN mailboxData.user ELSE "undefined", n)

\* options.session of the calls of del
DelSessions == { NoSession, [id |-> "s1", selected |-> "INBOX"] }

\* the document of the first delivery, as a caller read it before the other
\* operations ran
FirstMessage ==
    NewMessage(1, RawX, {},
               [id |-> "m1", user |-> UserId, path |-> "INBOX", uidValidity |-> 1,
                uidNext |-> 4, modifyIndex |-> 9, specialUse |-> ""])

\* del({message, session}): the caller holds a message document, stored now or
\* read earlier
DelBegin(p) ==
    /\ FirstIdle(p)
    /\ ops < MaxOps
    /\ \E m \in messages \cup {FirstMessage}, s \in DelSessions :
         proc' = Started(p, [Idle EXCEPT !.op = "del", !.pc = "getMailbox",
                                         !.target = [id |-> m.mailbox], !.msg = m,
                                         !.session = s])
    /\ ops' = ops + 1
    /\ UNCHANGED <<mailboxes, messages, storageUsed, attachments, journal, nextId,
                 faults, streams, side>>

DelGetMailbox(p) ==
    /\ proc[p].op = "del"
    /\ proc[p].pc = "getMailbox"
    /\ GetMailbox(p, "delete")
    /\ UNCHANGED <<mailboxes, messages, storageUsed, attachments, journal, nextId, ops,
                 streams, side>>

\* collection('messages').deleteOne({_id, mailbox, uid})
DeleteOne(msgs, id, mailbox, uid) ==
    { m \in msgs : ~(m.id = id /\ m.mailbox = mailbox /\ m.uid = uid) }

DelDelete(p) ==
    /\ proc[p].op = "del"
    /\ proc[p].pc = "delete"
    /\ \/ /\ CanFail
          /\ faults' = faults + 1
          /\ proc' = Failed(p, "db")
          /\ UNCHANGED messages
       \/ /\ UNCHANGED faults
          /\ messages' = DeleteOne(messages, proc[p].msg.id, proc[p].mb.id, proc[p].msg.uid)
          /\ proc' = [proc EXCEPT ![p].pc = "quota"]
    /\ UNCHANGED <<mailboxes, storageUsed, attachments, journal, nextId, ops, streams, side>>

\* this.updateQuota(mailboxData._id, {storageUsed: -message.size}, ...)
DelQuota(p) ==
    /\ proc[p].op = "del"
    /\ proc[p].pc = "quota"
    /\ storageUsed' = UpdateQuota(storageUsed, ObjectId(proc[p].mb), -proc[p].msg.size)
    /\ proc' = [proc EXCEPT ![p].pc = IF proc[p].msg.att = {} THEN "notify" ELSE "attachments"]
    /\ UNCHANGED <<mailboxes, messages, attachments, journal, nextId, ops, faults,
                 streams, side>>

DelAttachments(p) ==
    /\ proc[p].op = "del"
    /\ proc[p].pc = "attachments"
    /\ attachments' = AttDeleteMany(attachments, proc[p].msg.att, proc[p].msg.magic)
    /\ proc' = [proc EXCEPT ![p].pc = "notify"]
    /\ UNCHANGED <<mailboxes, messages, storageUsed, journal, nextId, ops, faults,
                 streams, side>>

\* the scope del hands to addEntries: (mailboxData._id, false), an id where the
\* other handlers pass the mailbox record; the notifier reads it as user + path
DelScope(mb) == UserPathScope(mb.id, "")

\* a del whose skipAttachments branch did not return: the callback runs twice
DelNotifyTwice(p) ==
    /\ proc[p].op = "del"
    /\ proc[p].pc = "notify"
    /\ streams' = Write(streams, proc[p].session, proc[p].mb,
                        <<Frame("EXPUNGE", proc[p].msg.uid)>>)
    /\ AddEntries(DelScope(proc[p].mb),
                  <<[Entry("EXPUNGE", proc[p].msg.uid, proc[p].msg.id, 0, proc[p].msg.unseen)
                       EXCEPT !.ignore = Ignore(proc[p].session)]>>)
    /\ proc' = [proc EXCEPT ![p].pc = "done", ![p].callbacks = @ + 2, ![p].status = "deleted"]
    /\ UNCHANGED <<storageUsed, attachments, nextId, ops, faults, side>>

\* the EXPUNGE frame of the session and the EXPUNGE journal entry
DelNotify(p) ==
    /\ proc[p].op = "del"
    /\ proc[p].pc = "notify"
    /\ streams' = Write(streams, proc[p].session, proc[p].mb,
                        <<Frame("EXPUNGE", proc[p].msg.uid)>>)
    /\ AddEntries(DelScope(proc[p].mb),
                  <<[Entry("EXPUNGE", proc[p].msg.uid, proc[p].msg.id, 0, proc[p].msg.unseen)
                       EXCEPT !.ignore = Ignore(proc[p].session)]>>)
    /\ proc' = [proc EXCEPT ![p].pc = "done", ![p].callbacks = @ + 1, ![p].status = "deleted"]
    /\ UNCHANGED <<storageUsed, attachments, nextId, ops, faults, side>>

Del(p) ==
    \/ DelBegin(p) \/ DelGetMailbox(p) \/ DelDelete(p) \/ DelQuota(p)
    \/ DelAttachments(p) \/ DelNotify(p)

\* --------------------------------------------------- MessageHandler.update

\* the messages of a cursor, in the order it returns them
RECURSIVE SortByUid(_)
SortByUid(S) ==
    IF S = {} THEN <<>>
    ELSE LET m == CHOOSE x \in S : \A y \in S : x.uid < y.uid \/ (x.uid = y.uid /\ x.id <= y.id)
         IN  <<m>> \o SortByUid(S \ {m})

\* collection('messages').find({mailbox, uid: query})
FindMessages(msgs, mailbox, query) == { m \in msgs : m.mailbox = mailbox /\ m.uid \in query }

AllUids == 1..100

\* the changes keys that stand for a system flag
FlagKeys == {"seen", "deleted", "flagged", "draft"}

\* an update that takes every key for a change
ChangeKeysAny == {"seen", "deleted", "flagged", "draft", "expires", "label"}

\* the changes keys update recognizes
ChangeKeys == {"seen", "deleted", "flagged", "draft", "expires"}

\* this.notifier.addEntries(mailbox, false, entries, ...) was called by p: the
\* mailbox and the number of entries of the call
Called(pr, p, mailbox, entries) ==
    [pr EXCEPT ![p].calls = Append(@, [mailbox |-> mailbox.id, n |-> Len(entries)])]

\* update's $set of the boolean columns
UpdateSet(m, changes) ==
    LET a == IF "seen" \in DOMAIN changes THEN [m EXCEPT !.unseen = ~changes["seen"]] ELSE m
        b == IF "deleted" \in DOMAIN changes THEN [a EXCEPT !.undeleted = ~changes["deleted"]] ELSE a
        c == IF "flagged" \in DOMAIN changes THEN [b EXCEPT !.flagged = changes["flagged"]] ELSE b
    IN  IF "draft" \in DOMAIN changes THEN [c EXCEPT !.flagged = changes["draft"]] ELSE c

FlagName(k) ==
    CASE k = "seen" -> "\\Seen"
      [] k = "deleted" -> "\\Deleted"
      [] k = "flagged" -> "\\Flagged"
      [] k = "draft" -> "\\Draft"

AddFlagsOf(changes) ==
    { FlagName(k) : k \in { j \in DOMAIN changes \cap FlagKeys : changes[j] } }
RemoveFlagsOf(changes) ==
    { FlagName(k) : k \in { j \in DOMAIN changes \cap FlagKeys : ~changes[j] } }

\* the document after update's $set + $addToSet + $pull
Updated(m, changes, modseq) ==
    [UpdateSet(m, changes) EXCEPT
        !.modseq = modseq,
        !.flags = (m.flags \cup AddFlagsOf(changes)) \ RemoveFlagsOf(changes)]

\* a user who owns no mailbox
OtherUser == "u2"

UpdateCalls ==
    { [user |-> UserId, mailbox |-> "m1", query |-> AllUids,
       changes |-> [k \in {"seen"} |-> TRUE]],
      [user |-> UserId, mailbox |-> "m1", query |-> {4},
       changes |-> [k \in {"seen"} |-> TRUE]],
      [user |-> UserId, mailbox |-> "m1", query |-> AllUids,
       changes |-> [k \in {"label"} |-> TRUE]],
      [user |-> OtherUser, mailbox |-> "m1", query |-> AllUids,
       changes |-> [k \in {"seen"} |-> TRUE]],
      [user |-> UserId, mailbox |-> "m1", query |-> AllUids,
       changes |-> [k \in {"draft"} |-> TRUE]],
      [user |-> UserId, mailbox |-> "m1", query |-> AllUids,
       changes |-> [k \in {"deleted"} |-> TRUE]] }

\* update(user, mailbox, messageQuery, changes): without a recognized key the
\* callback gets 'Nothing was changed' before any database call
UpdateBegin(p) ==
    /\ FirstIdle(p)
    /\ ops < MaxOps
    /\ \E c \in UpdateCalls :
         LET rec == [Idle EXCEPT !.op = "update",
                                 !.target = [id |-> c.mailbox, owner |-> c.user],
                                 !.query = c.query, !.changes = c.changes]
         IN  IF DOMAIN c.changes \cap ChangeKeys = {}
             THEN proc' = Started(p, [rec EXCEPT !.pc = "done", !.callbacks = 1, !.status = "error",
                                                 !.err = "Nothing was changed"])
             ELSE proc' = Started(p, [rec EXCEPT !.pc = "bump"])
    /\ ops' = ops + 1
    /\ UNCHANGED <<mailboxes, messages, storageUsed, attachments, journal, nextId,
                 faults, streams, side>>

\* the modseq of a bump that adds one to what $inc returned
UpdateModseqNext(item) == item.modifyIndex + 1

\* updates.$set.modseq = mailboxData.modifyIndex, of the document $inc returned
UpdateModseq(item) == item.modifyIndex

\* acquire new MODSEQ: the post-image of $inc modifyIndex
UpdateBump(p) ==
    /\ proc[p].op = "update"
    /\ proc[p].pc = "bump"
    /\ \/ /\ CanFail
          /\ faults' = faults + 1
          /\ proc' = Failed(p, "db")
          /\ UNCHANGED mailboxes
       \/ /\ UNCHANGED faults
          /\ LET id == proc[p].target.id
             IN  IF FindMailboxOfUser(mailboxes, id, proc[p].target.owner) = NoMb
                 THEN /\ proc' = Failed(p, "Mailbox is missing")
                      /\ UNCHANGED mailboxes
                 ELSE /\ mailboxes' = IncMailbox(mailboxes, id, 0, 1)
                      /\ proc' = [proc EXCEPT ![p].pc = "next", ![p].mb = mailboxes'[id],
                                              ![p].modseq = UpdateModseq(mailboxes'[id])]
    /\ UNCHANGED <<messages, storageUsed, attachments, journal, nextId, ops, streams, side>>

\* a done that hands notifyEntries to the notifier even when it is empty
UpdateDoneFlush(p, e) ==
    [proc EXCEPT ![p].pc = "flush", ![p].fin = TRUE, ![p].err = e]

\* done(err) of update: flush what is left, then the callback
UpdateDone(p, e) ==
    IF proc[p].notifyEntries # <<>>
    THEN [proc EXCEPT ![p].pc = "flush", ![p].fin = TRUE, ![p].err = e]
    ELSE [proc EXCEPT ![p].pc = "done", ![p].callbacks = @ + 1, ![p].err = e,
                      ![p].status = IF e = "" THEN "updated" ELSE "error"]

\* cursor.next
UpdateNext(p) ==
    /\ proc[p].op = "update"
    /\ proc[p].pc = "next"
    /\ \/ /\ CanFail
          /\ faults' = faults + 1
          /\ proc' = UpdateDone(p, "db")
       \/ /\ UNCHANGED faults
          /\ LET cur == IF proc[p].opened THEN proc[p].cur
                        ELSE SortByUid(FindMessages(messages, proc[p].mb.id, proc[p].query))
             IN  IF cur = <<>>
                 THEN proc' = UpdateDone(p, "")
                 ELSE proc' = [proc EXCEPT ![p].pc = "write", ![p].opened = TRUE,
                                           ![p].msg = Head(cur), ![p].cur = Tail(cur)]
    /\ UNCHANGED <<mailboxes, messages, storageUsed, attachments, journal, nextId, ops,
                 streams, side>>

\* the document findOneAndUpdate hands back to update's callback
UpdateReturned(before, after) == before

\* findOneAndUpdate({_id, mailbox, uid}, updates), then the FETCH entry
UpdateWrite(p) ==
    /\ proc[p].op = "update"
    /\ proc[p].pc = "write"
    /\ \/ /\ CanFail
          /\ faults' = faults + 1
          /\ proc' = UpdateDone(p, "db")
          /\ UNCHANGED messages
       \/ /\ UNCHANGED faults
          /\ LET hit == { m \in messages : /\ m.id = proc[p].msg.id
                                            /\ m.mailbox = proc[p].target.id
                                            /\ m.uid = proc[p].msg.uid }
             IN  IF hit = {}
                 THEN /\ proc' = [proc EXCEPT ![p].pc = "next"]
                      /\ UNCHANGED messages
                 ELSE \E m \in hit :
                        LET after == Updated(m, proc[p].changes, proc[p].modseq)
                            item == UpdateReturned(m, after)
                            entries == Append(proc[p].notifyEntries,
                                              FetchEntry(item.uid, item.id, item.flags,
                                                         "seen" \in DOMAIN proc[p].changes
                                                            /\ proc[p].changes["seen"]))
                        IN  /\ messages' = (messages \ {m}) \cup {after}
                            /\ proc' = [proc EXCEPT ![p].count = @ + 1,
                                                    ![p].notifyEntries = entries,
                                                    ![p].pc = IF Len(entries) >= BULK_BATCH_SIZE
                                                              THEN "flush" ELSE "next"]
    /\ UNCHANGED <<mailboxes, storageUsed, attachments, journal, nextId, ops, streams, side>>

\* notifier.addEntries(mailboxData, false, notifyEntries, ...)
UpdateFlush(p) ==
    /\ proc[p].op = "update"
    /\ proc[p].pc = "flush"
    /\ AddEntries(MailboxScope(proc[p].mb), proc[p].notifyEntries)
    /\ LET called == Called(proc, p, proc[p].mb, proc[p].notifyEntries)
       IN  proc' = IF proc[p].fin
                   THEN [called EXCEPT ![p].notifyEntries = <<>>, ![p].pc = "done", ![p].callbacks = @ + 1,
                                       ![p].status = IF proc[p].err = "" THEN "updated"
                                                     ELSE "error"]
                   ELSE [called EXCEPT ![p].notifyEntries = <<>>, ![p].pc = "next"]
    /\ UNCHANGED <<storageUsed, attachments, nextId, ops, faults, streams, side>>

Update(p) ==
    \/ UpdateBegin(p) \/ UpdateBump(p) \/ UpdateNext(p) \/ UpdateWrite(p) \/ UpdateFlush(p)

\* ----------------------------------------------------- MessageHandler.move

\* searchable of a message placed into target by move
MoveSearchable(target, m) == ~(target.specialUse \in {"\\Junk", "\\Trash"} \/ ~m.undeleted)

\* junk of a message placed into target
TargetJunk(target, m) ==
    IF target.specialUse = "\\Junk" /\ ~m.junk THEN TRUE
    ELSE IF target.specialUse # "\\Trash" /\ m.junk THEN FALSE
    ELSE m.junk

\* one key of options.updates applied to the message being moved
MoveUpdateKey(m, key, val) ==
    LET f == FlagName(key)
    IN  IF key \in {"seen", "deleted"}
        THEN LET fl == IF ~val /\ f \notin m.flags THEN m.flags \cup {f}
                       ELSE IF val /\ f \in m.flags THEN m.flags \ {f}
                       ELSE m.flags
             IN  IF key = "seen" THEN [m EXCEPT !.flags = fl, !.unseen = val]
                 ELSE [m EXCEPT !.flags = fl, !.undeleted = val]
        ELSE LET fl == IF val /\ f \notin m.flags THEN m.flags \cup {f}
                       ELSE IF ~val /\ f \in m.flags THEN m.flags \ {f}
                       ELSE m.flags
             IN  IF key = "flagged" THEN [m EXCEPT !.flags = fl, !.flagged = val]
                 ELSE [m EXCEPT !.flags = fl, !.draft = val]

MoveUpdates(m, updates) ==
    LET a == IF "seen" \in DOMAIN updates THEN MoveUpdateKey(m, "seen", updates["seen"]) ELSE m
        b == IF "deleted" \in DOMAIN updates THEN MoveUpdateKey(a, "deleted", updates["deleted"]) ELSE a
        c == IF "flagged" \in DOMAIN updates THEN MoveUpdateKey(b, "flagged", updates["flagged"]) ELSE b
    IN  IF "draft" \in DOMAIN updates THEN MoveUpdateKey(c, "draft", updates["draft"]) ELSE c

\* the document move inserts into target for source message m
MovedMessage(m, id, target, uid, updates) ==
    MoveUpdates([m EXCEPT !.id = id, !.mailbox = target.id, !.uid = uid, !.modseq = 0,
                          !.searchable = MoveSearchable(target, m),
                          !.junk = TargetJunk(target, m)],
                updates)

\* a push that puts the element in front
PushFront(list, x) == <<x>> \o list

\* sourceUid.push / destinationUid.push
Push(list, x) == Append(list, x)

MoveCalls ==
    { [source |-> "m1", destination |-> "m2", query |-> AllUids, updates |-> NoChanges,
       session |-> [id |-> "s1", selected |-> "INBOX"]],
      [source |-> "m1", destination |-> "m2", query |-> AllUids,
       updates |-> [k \in {"seen"} |-> TRUE],
       session |-> [id |-> "s2", selected |-> "Trash"]] }

MoveBegin(p) ==
    /\ FirstIdle(p)
    /\ ops < MaxOps
    /\ \E c \in MoveCalls :
         proc' = Started(p, [Idle EXCEPT !.op = "move", !.pc = "getMailbox",
                                         !.target = [id |-> c.source],
                                         !.dest = [id |-> c.destination],
                                         !.session = c.session,
                                         !.query = c.query, !.changes = c.updates])
    /\ ops' = ops + 1
    /\ UNCHANGED <<mailboxes, messages, storageUsed, attachments, journal, nextId,
                 faults, streams, side>>

MoveGetSource(p) ==
    /\ proc[p].op = "move"
    /\ proc[p].pc = "getMailbox"
    /\ GetMailbox(p, "getTarget")
    /\ UNCHANGED <<mailboxes, messages, storageUsed, attachments, journal, nextId, ops,
                 streams, side>>

MoveGetTarget(p) ==
    /\ proc[p].op = "move"
    /\ proc[p].pc = "getTarget"
    /\ \/ /\ CanFail
          /\ faults' = faults + 1
          /\ proc' = Failed(p, "db")
       \/ /\ UNCHANGED faults
          /\ IF FindMailbox(mailboxes, proc[p].dest.id) = NoMb
             THEN proc' = Failed(p, "TRYCREATE")
             ELSE proc' = [proc EXCEPT ![p].dest = FindMailbox(mailboxes, proc[p].dest.id),
                                       ![p].pc = "bump"]
    /\ UNCHANGED <<mailboxes, messages, storageUsed, attachments, journal, nextId, ops,
                 streams, side>>

\* $inc modifyIndex of the source; its callback looks at no result
MoveBump(p) ==
    /\ proc[p].op = "move"
    /\ proc[p].pc = "bump"
    /\ mailboxes' = IncMailbox(mailboxes, proc[p].mb.id, 0, 1)
    /\ proc' = [proc EXCEPT ![p].pc = "next"]
    /\ UNCHANGED <<messages, storageUsed, attachments, journal, nextId, ops, faults,
                 streams, side>>

\* a done that reports without handing the collected entries to the notifier
MoveDoneDrop(p, e) ==
    [proc EXCEPT ![p].pc = "done", ![p].callbacks = @ + 1, ![p].err = e,
                 ![p].status = IF e = "" THEN "moved" ELSE "error"]

\* done(err) of move: flush what is left, then the callback
MoveDone(p, e) ==
    IF proc[p].existsEntries # <<>>
    THEN [proc EXCEPT ![p].pc = "flushRemove", ![p].fin = TRUE, ![p].err = e]
    ELSE [proc EXCEPT ![p].pc = "done", ![p].callbacks = @ + 1, ![p].err = e,
                      ![p].status = IF e = "" THEN "moved" ELSE "error"]

\* cursor.next; the UID of the message is recorded in sourceUid
MoveNext(p) ==
    /\ proc[p].op = "move"
    /\ proc[p].pc = "next"
    /\ \/ /\ CanFail
          /\ faults' = faults + 1
          /\ proc' = MoveDone(p, "db")
       \/ /\ UNCHANGED faults
          /\ LET cur == IF proc[p].opened THEN proc[p].cur
                        ELSE SortByUid(FindMessages(messages, proc[p].mb.id, proc[p].query))
             IN  IF cur = <<>>
                 THEN proc' = MoveDone(p, "")
                 ELSE proc' = [proc EXCEPT ![p].pc = "reserve", ![p].opened = TRUE,
                                           ![p].existing = Head(cur), ![p].cur = Tail(cur),
                                           ![p].sourceUid = Push(@, Head(cur).uid)]
    /\ UNCHANGED <<mailboxes, messages, storageUsed, attachments, journal, nextId, ops,
                 streams, side>>

\* $inc uidNext of the target; the message gets the UID handed out
MoveReserve(p) ==
    /\ proc[p].op = "move"
    /\ proc[p].pc = "reserve"
    /\ \/ /\ CanFail
          /\ faults' = faults + 1
          /\ proc' = MoveDone(p, "db")
          /\ UNCHANGED <<mailboxes, nextId>>
       \/ /\ UNCHANGED faults
          /\ LET item == FindMailbox(mailboxes, proc[p].dest.id)
             IN  IF item = NoMb
                 THEN /\ proc' = MoveDone(p, "Mailbox disappeared")
                      /\ UNCHANGED <<mailboxes, nextId>>
                 ELSE /\ mailboxes' = IncMailbox(mailboxes, item.id, 1, 0)
                      /\ nextId' = nextId + 1
                      /\ proc' = [proc EXCEPT
                                    ![p].pc = "insert",
                                    ![p].uid = ReservedUid(item),
                                    ![p].destinationUid = Push(@, ReservedUid(item)),
                                    ![p].msg = MovedMessage(proc[p].existing, nextId, proc[p].dest,
                                                            ReservedUid(item), proc[p].changes)]
    /\ UNCHANGED <<messages, storageUsed, attachments, journal, ops, streams, side>>

\* a move that deleted the original before the insert of the copy was answered
MoveInsertLosing(p) ==
    /\ proc[p].op = "move"
    /\ proc[p].pc = "insert"
    /\ \/ /\ CanFail
          /\ faults' = faults + 1
          /\ proc' = MoveDone(p, "db")
          /\ messages' = DeleteOne(messages, proc[p].existing.id, proc[p].mb.id,
                                   proc[p].existing.uid)
       \/ /\ UNCHANGED faults
          /\ messages' = messages \cup {proc[p].msg}
          /\ proc' = [proc EXCEPT ![p].pc = "delete"]
    /\ UNCHANGED <<mailboxes, storageUsed, attachments, journal, nextId, ops, streams, side>>

MoveInsert(p) ==
    /\ proc[p].op = "move"
    /\ proc[p].pc = "insert"
    /\ \/ /\ CanFail
          /\ faults' = faults + 1
          /\ proc' = MoveDone(p, "db")
          /\ UNCHANGED messages
       \/ /\ UNCHANGED faults
          /\ messages' = messages \cup {proc[p].msg}
          /\ proc' = [proc EXCEPT ![p].pc = "delete"]
    /\ UNCHANGED <<mailboxes, storageUsed, attachments, journal, nextId, ops, streams, side>>

\* delete old message, then record the EXPUNGE / EXISTS pair
MoveDelete(p) ==
    /\ proc[p].op = "move"
    /\ proc[p].pc = "delete"
    /\ \/ /\ CanFail
          /\ faults' = faults + 1
          /\ proc' = MoveDone(p, "db")
          /\ UNCHANGED <<messages, streams>>
       \/ /\ UNCHANGED faults
          /\ messages' = DeleteOne(messages, proc[p].existing.id, proc[p].mb.id,
                                   proc[p].existing.uid)
          /\ streams' = WriteAny(streams, proc[p].session,
                                 <<FrameOfAll("EXPUNGE", proc[p].sourceUid)>>)
          /\ LET rm == Append(proc[p].removeEntries,
                              [Entry("EXPUNGE", proc[p].existing.uid, proc[p].existing.id,
                                     0, proc[p].existing.unseen)
                                 EXCEPT !.ignore = Ignore(proc[p].session)])
                 ex == Append(proc[p].existsEntries,
                              Entry("EXISTS", proc[p].uid, proc[p].msg.id, 0, proc[p].msg.unseen))
             IN  proc' = [proc EXCEPT ![p].removeEntries = rm, ![p].existsEntries = ex,
                                      ![p].pc = IF Len(ex) >= BULK_BATCH_SIZE
                                                THEN "flushRemove" ELSE "next"]
    /\ UNCHANGED <<mailboxes, storageUsed, attachments, journal, nextId, ops, side>>

\* mark messages as deleted from old mailbox
MoveFlushRemove(p) ==
    /\ proc[p].op = "move"
    /\ proc[p].pc = "flushRemove"
    /\ AddEntries(MailboxScope(proc[p].mb), proc[p].removeEntries)
    /\ proc' = [Called(proc, p, proc[p].mb, proc[p].removeEntries) EXCEPT
                  ![p].pc = "flushExists"]
    /\ UNCHANGED <<storageUsed, attachments, nextId, ops, faults, streams, side>>

\* mark messages as added to new mailbox
MoveFlushExists(p) ==
    /\ proc[p].op = "move"
    /\ proc[p].pc = "flushExists"
    /\ AddEntries(MailboxScope(proc[p].dest), proc[p].existsEntries)
    /\ LET called == Called(proc, p, proc[p].dest, proc[p].existsEntries)
       IN  proc' = IF proc[p].fin
                   THEN [called EXCEPT ![p].pc = "done", ![p].callbacks = @ + 1,
                                       ![p].status = IF proc[p].err = "" THEN "moved"
                                                     ELSE "error"]
                   ELSE [called EXCEPT ![p].removeEntries = <<>>,
                                       ![p].existsEntries = <<>>, ![p].pc = "next"]
    /\ UNCHANGED <<storageUsed, attachments, nextId, ops, faults, streams, side>>

Move(p) ==
    \/ MoveBegin(p) \/ MoveGetSource(p) \/ MoveGetTarget(p) \/ MoveBump(p) \/ MoveNext(p)
    \/ MoveReserve(p) \/ MoveInsert(p) \/ MoveDelete(p)
    \/ MoveFlushRemove(p) \/ MoveFlushExists(p)

\* ------------------------------------------------------------------ onCopy

\* collection('mailboxes').findOne({user, path})
FindByPath(mbs, user, path) ==
    LET hit == { i \in DOMAIN mbs : mbs[i].user = user /\ mbs[i].path = path }
    IN  IF hit = {} THEN NoMb ELSE mbs[CHOOSE i \in hit : TRUE]

\* searchable of a message placed into target by COPY
CopySearchable(target, m) == ~(target.specialUse \in {"\\Junk", "\\Trash"})

\* the document onCopy inserts into target for source message m
CopiedMessage(m, id, target, uid) ==
    [m EXCEPT !.id = id, !.mailbox = target.id, !.uid = uid,
              !.searchable = CopySearchable(target, m),
              !.junk = TargetJunk(target, m)]

CopyCalls ==
    { [path |-> "INBOX", destination |-> "Trash", query |-> AllUids],
      [path |-> "Gone", destination |-> "Trash", query |-> AllUids],
      [path |-> "INBOX", destination |-> "Gone", query |-> AllUids] }

\* onCopy(path, {destination, messages}, session, callback)
CopyBegin(p) ==
    /\ FirstIdle(p)
    /\ ops < MaxOps
    /\ \E c \in CopyCalls :
         proc' = Started(p, [Idle EXCEPT !.op = "copy", !.pc = "getMailbox",
                                         !.target = [path |-> c.path],
                                         !.dest = [path |-> c.destination],
                                         !.query = c.query])
    /\ ops' = ops + 1
    /\ UNCHANGED <<mailboxes, messages, storageUsed, attachments, journal, nextId,
                 faults, streams, side>>

CopyGetSource(p) ==
    /\ proc[p].op = "copy"
    /\ proc[p].pc = "getMailbox"
    /\ \/ /\ CanFail
          /\ faults' = faults + 1
          /\ proc' = Failed(p, "db")
       \/ /\ UNCHANGED faults
          /\ LET mailbox == FindByPath(mailboxes, UserId, proc[p].target.path)
             IN  IF mailbox = NoMb
                 THEN proc' = [proc EXCEPT ![p].pc = "done", ![p].callbacks = @ + 1, ![p].status = "NONEXISTENT"]
                 ELSE proc' = [proc EXCEPT ![p].mb = mailbox, ![p].pc = "getTarget"]
    /\ UNCHANGED <<mailboxes, messages, storageUsed, attachments, journal, nextId, ops,
                 streams, side>>

CopyGetTarget(p) ==
    /\ proc[p].op = "copy"
    /\ proc[p].pc = "getTarget"
    /\ \/ /\ CanFail
          /\ faults' = faults + 1
          /\ proc' = Failed(p, "db")
       \/ /\ UNCHANGED faults
          /\ LET target == FindByPath(mailboxes, UserId, proc[p].dest.path)
             IN  IF target = NoMb
                 THEN proc' = [proc EXCEPT ![p].pc = "done", ![p].callbacks = @ + 1, ![p].status = "TRYCREATE"]
                 ELSE proc' = [proc EXCEPT ![p].dest = target, ![p].pc = "next"]
    /\ UNCHANGED <<mailboxes, messages, storageUsed, attachments, journal, nextId, ops,
                 streams, side>>

\* an onCopy that updated the quota only when it completed
CopyDoneCompleted(p, e, st) ==
    IF proc[p].count # 0 /\ st = "copied"
    THEN [proc EXCEPT ![p].pc = "quota", ![p].err = e, ![p].status = st]
    ELSE [proc EXCEPT ![p].pc = "done", ![p].callbacks = @ + 1, ![p].err = e, ![p].status = st]

\* updateQuota(next) of onCopy, then the callback with err or the sentinel
CopyDone(p, e, st) ==
    IF proc[p].count # 0
    THEN [proc EXCEPT ![p].pc = "quota", ![p].err = e, ![p].status = st]
    ELSE [proc EXCEPT ![p].pc = "done", ![p].callbacks = @ + 1, ![p].err = e, ![p].status = st]

\* cursor.next; the UID of the message is recorded in sourceUid
CopyNext(p) ==
    /\ proc[p].op = "copy"
    /\ proc[p].pc = "next"
    /\ \/ /\ CanFail
          /\ faults' = faults + 1
          /\ proc' = CopyDone(p, "db", "error")
       \/ /\ UNCHANGED faults
          /\ LET cur == IF proc[p].opened THEN proc[p].cur
                        ELSE SortByUid(FindMessages(messages, proc[p].mb.id, proc[p].query))
             IN  IF cur = <<>>
                 THEN proc' = CopyDone(p, "", "copied")
                 ELSE proc' = [proc EXCEPT ![p].pc = "reserve", ![p].opened = TRUE,
                                           ![p].existing = Head(cur), ![p].cur = Tail(cur),
                                           ![p].sourceUid = <<Head(cur).uid>> \o @]
    /\ UNCHANGED <<mailboxes, messages, storageUsed, attachments, journal, nextId, ops,
                 streams, side>>

CopyReserve(p) ==
    /\ proc[p].op = "copy"
    /\ proc[p].pc = "reserve"
    /\ \/ /\ CanFail
          /\ faults' = faults + 1
          /\ proc' = CopyDone(p, "db", "error")
          /\ UNCHANGED <<mailboxes, nextId>>
       \/ /\ UNCHANGED faults
          /\ LET item == FindMailbox(mailboxes, proc[p].dest.id)
             IN  IF item = NoMb
                 THEN /\ proc' = CopyDone(p, "", "TRYCREATE")
                      /\ UNCHANGED <<mailboxes, nextId>>
                 ELSE /\ mailboxes' = IncMailbox(mailboxes, item.id, 1, 0)
                      /\ nextId' = nextId + 1
                      /\ proc' = [proc EXCEPT
                                    ![p].pc = "insert",
                                    ![p].uid = ReservedUid(item),
                                    ![p].destinationUid = <<ReservedUid(item)>> \o @,
                                    ![p].msg = CopiedMessage(proc[p].existing, nextId, proc[p].dest,
                                                             ReservedUid(item))]
    /\ UNCHANGED <<messages, storageUsed, attachments, journal, ops, streams, side>>

CopyInsert(p) ==
    /\ proc[p].op = "copy"
    /\ proc[p].pc = "insert"
    /\ \/ /\ CanFail
          /\ faults' = faults + 1
          /\ proc' = CopyDone(p, "db", "error")
          /\ UNCHANGED messages
       \/ /\ UNCHANGED faults
          /\ messages' = messages \cup {proc[p].msg}
          /\ proc' = [proc EXCEPT ![p].count = @ + 1,
                                  ![p].copiedStorage = @ + proc[p].msg.size,
                                  ![p].pc = IF proc[p].msg.att = {} THEN "notify"
                                            ELSE "attachments"]
    /\ UNCHANGED <<mailboxes, storageUsed, attachments, journal, nextId, ops, streams, side>>

\* attachmentStorage.updateMany(attachmentIds, 1, message.magic, ...)
CopyAttachments(p) ==
    /\ proc[p].op = "copy"
    /\ proc[p].pc = "attachments"
    /\ attachments' = AttUpdateMany(attachments, proc[p].msg.att, 1, proc[p].msg.magic)
    /\ proc' = [proc EXCEPT ![p].pc = "notify"]
    /\ UNCHANGED <<mailboxes, messages, storageUsed, journal, nextId, ops, faults,
                 streams, side>>

\* server.notifier.addEntries(session.user.id, target.path, entry, processNext)
CopyNotify(p) ==
    /\ proc[p].op = "copy"
    /\ proc[p].pc = "notify"
    /\ AddEntries(UserPathScope(UserId, proc[p].dest.path),
                  <<Entry("EXISTS", proc[p].msg.uid, proc[p].msg.id, 0, proc[p].msg.unseen)>>)
    /\ proc' = [proc EXCEPT ![p].pc = "next"]
    /\ UNCHANGED <<storageUsed, attachments, nextId, ops, faults, streams, side>>

CopyQuota(p) ==
    /\ proc[p].op = "copy"
    /\ proc[p].pc = "quota"
    /\ storageUsed' = IncStorage(storageUsed, proc[p].mb.user, proc[p].copiedStorage)
    /\ proc' = [proc EXCEPT ![p].pc = "done", ![p].callbacks = @ + 1]
    /\ UNCHANGED <<mailboxes, messages, attachments, journal, nextId, ops, faults,
                 streams, side>>

Copy(p) ==
    \/ CopyBegin(p) \/ CopyGetSource(p) \/ CopyGetTarget(p) \/ CopyNext(p) \/ CopyReserve(p)
    \/ CopyInsert(p) \/ CopyAttachments(p) \/ CopyNotify(p) \/ CopyQuota(p)

Add(p) ==
    \/ AddBegin(p) \/ AddGetMailbox(p) \/ AddProbe(p)
    \/ AddReplReserve(p) \/ AddReplUpdate(p) \/ AddReplExpunge(p) \/ AddReplExists(p)
    \/ AddStoreBodies(p) \/ AddIncQuota(p) \/ AddReserve(p) \/ AddThread(p)
    \/ AddInsert(p) \/ AddNotify(p) \/ AddRollback(p) \/ AddCleanup(p)

Next == \E p \in Procs : Add(p) \/ Del(p) \/ Move(p) \/ Copy(p) \/ Update(p) \/ Return(p)

Spec == Init /\ [][Next]_vars

\* a handler in flight takes its next step: the database, attachment-store or
\* notifier call it waits for invokes its callback
Step(p) ==
    /\ proc[p].pc \notin {"idle", "done"}
    /\ Add(p) \/ Del(p) \/ Move(p) \/ Copy(p) \/ Update(p)

\* every call a handler makes is eventually answered
SpecFair == Init /\ [][Next]_vars /\ \A p \in Procs : WF_vars(Step(p))

\* The store after three deliveries into INBOX (UIDs 4, 5, 6; tip (7, 12)), on which
\* update and move run: more messages than one batch holds.
InitBatch ==
    /\ mailboxes =
         [i \in {"m1", "m2"} |->
            IF i = "m1"
            THEN [id |-> "m1", user |-> UserId, path |-> "INBOX", uidValidity |-> 1,
                  uidNext |-> 7, modifyIndex |-> 12, specialUse |-> ""]
            ELSE [id |-> "m2", user |-> UserId, path |-> "Trash", uidValidity |-> 2,
                  uidNext |-> 3, modifyIndex |-> 4, specialUse |-> "\\Trash"]]
    /\ messages =
         { NewMessage(i, IF i = 1 THEN RawX ELSE RawY, {},
                      [id |-> "m1", user |-> UserId, path |-> "INBOX", uidValidity |-> 1,
                       uidNext |-> 3 + i, modifyIndex |-> 8 + i, specialUse |-> ""]) :
           i \in 1..3 }
    /\ storageUsed = [u \in {UserId} |-> RawX.size + RawY.size + RawY.size]
    /\ attachments = [k \in AttKeys(RawX.att, 1) |-> 1]
    /\ journal = [i \in 1..3 |->
                    [Entry("EXISTS", 3 + i, i, 9 + i, TRUE) EXCEPT !.mailbox = "m1"]]
    /\ streams = [s \in SessionIds |-> <<>>]
    /\ proc = [p \in Procs |-> Idle]
    /\ sse = NoRequest
    /\ threads = <<>>
    /\ adds = NoAdds
    /\ conn = NoConnection
    /\ html = NoParts
    /\ nextId = 4
    /\ ops = 0
    /\ faults = 0

\* one caller runs its updates and moves one after the other
BatchCallers == {"p1"}

NextBatch == \E p \in BatchCallers : Update(p) \/ Move(p) \/ Return(p)

SpecBatch == InitBatch /\ [][NextBatch]_vars

\* ------------------------------------------------ GET /users/:user/updates

\* journal entries in one behaviour of the SSE client's specification
MaxJournal == 3
\* idle timer expiries in one behaviour
MaxIdle == 1
\* end / error / timeout events of the connection in one behaviour
MaxEnds == 2

\* the variables the SSE request leaves alone
store == <<mailboxes, messages, storageUsed, attachments, streams, proc, nextId, ops,
           threads, adds, conn, html>>

\* frames on the response
IdleFrame(n) == [kind |-> "idle", command |-> "", id |-> n, mailbox |-> ""]
ErrorFrame == [kind |-> "error", command |-> "", id |-> 0, mailbox |-> ""]

\* formatJournalData(e): the data of the entry and the id line with its _id
FormatJournalData(command, id, mailbox) ==
    [kind |-> "data", command |-> command, id |-> id, mailbox |-> mailbox]

\* the FETCH entry update writes for changes {seen: true} on the unseen message
\* UID 4 of INBOX, and for changes {seen: false} on the seen message UID 2 of
\* Trash: unseenChange is !!changes.seen, the flags are those update read
MarkedSeen == [FetchEntry(4, 1, {}, TRUE) EXCEPT !.mailbox = "m1"]
MarkedUnseen == [FetchEntry(2, 3, {"\\Seen"}, FALSE) EXCEPT !.mailbox = "m2"]

\* the journal entries handlers append for the user, as addEntries stores them
JournalEntries ==
    { [Entry("EXISTS", 5, 2, 11, TRUE) EXCEPT !.mailbox = "m1"],
      [Entry("EXPUNGE", 4, 1, 0, TRUE) EXCEPT !.mailbox = "m1"],
      MarkedSeen,
      MarkedUnseen }

\* a handler's addEntries appends an entry to the journal of the user
JournalAppend ==
    /\ Len(journal) < MaxJournal
    /\ \E e \in JournalEntries : journal' = Append(journal, e)
    /\ UNCHANGED <<store, sse, faults>>

\* sendIdleComment
SendIdleComment(r) ==
    IF r.closed THEN [r EXCEPT !.idleTimer = FALSE]
    ELSE [r EXCEPT !.idleCounter = @ + 1, !.idleTimer = TRUE,
                   !.out = Append(@, IdleFrame(r.idleCounter + 1))]

\* resetIdleComment
ResetIdleComment(r) == [r EXCEPT !.idleTimer = ~r.closed]

\* setup: register the listener and the end / error / timeout handlers
Setup(r) == [r EXCEPT !.listeners = @ + 1, !.pc = "live"]

\* close
Close(r) ==
    [r EXCEPT !.closed = TRUE, !.idleTimer = FALSE,
              !.listeners = IF @ > 0 THEN @ - 1 ELSE @, !.removed = @ + 1]

\* loadJournalStream(db, req, res, user, lastEventId, done) is called
LoadJournalStream(by, lastEventId) ==
    [NoDrain EXCEPT !.by = by, !.pc = "next", !.lastEventId = lastEventId]

\* the request arrives, with or without a Last-Event-ID
SseRequest ==
    /\ sse.pc = "none"
    /\ \E id \in 0..Len(journal) :
         sse' = [sse EXCEPT !.pc = "findUser", !.lastEventId = id, !.resume = id,
                            !.base = id]
    /\ UNCHANGED <<store, journal, faults>>

\* collection('users').findOne, then the initial replay or the look-up of
\* the latest entry
SseFindUser ==
    /\ sse.pc = "findUser"
    /\ \/ /\ CanFail
          /\ faults' = faults + 1
          /\ sse' = [sse EXCEPT !.pc = "ended", !.out = Append(@, ErrorFrame)]
       \/ /\ UNCHANGED faults
          /\ IF UserId \notin DOMAIN storageUsed
             THEN sse' = [sse EXCEPT !.pc = "ended", !.out = Append(@, ErrorFrame)]
             ELSE IF sse.lastEventId # 0
             THEN sse' = [sse EXCEPT !.pc = "replay",
                                     !.drain = LoadJournalStream("replay", sse.lastEventId)]
             ELSE sse' = [sse EXCEPT !.pc = "findLatest"]
    /\ UNCHANGED <<store, journal>>

\* collection('journal').findOne({user}, {sort: {_id: -1}}): an error is
\* taken for an empty journal
SseFindLatest ==
    /\ sse.pc = "findLatest"
    /\ \/ /\ CanFail
          /\ faults' = faults + 1
          /\ sse' = SendIdleComment(Setup(sse))
       \/ /\ UNCHANGED faults
          /\ sse' = SendIdleComment(Setup([sse EXCEPT !.lastEventId = Len(journal),
                                                      !.base = Len(journal)]))
    /\ UNCHANGED <<store, journal>>

\* the callback of the initial replay
ReplayDone(r, err, info) ==
    LET w == IF err THEN [r EXCEPT !.out = Append(@, ErrorFrame)] ELSE r
        u == Setup([w EXCEPT !.drain = NoDrain])
    IN  IF ~err /\ info.processed > 0 THEN ResetIdleComment(u) ELSE SendIdleComment(u)

\* the callback of journalReader's drain: lastEventId = info && info.lastEventId
ReaderDone(r, err, info) ==
    LET u == [r EXCEPT !.drain = NoDrain, !.journalReading = FALSE,
                       !.lastEventId = IF err THEN 0 ELSE info.lastEventId]
    IN  IF ~err /\ info.processed > 0 THEN ResetIdleComment(u) ELSE u

\* done(err, {lastEventId, processed}) of loadJournalStream
DrainDone(r, err) ==
    IF r.drain.by = "replay" THEN ReplayDone(r, err, r.drain) ELSE ReaderDone(r, err, r.drain)

\* find(query).sort({_id: 1}): the entries after lastEventId, all entries
\* when there is none
JournalAfter(jr, lastEventId) == [i \in 1..(Len(jr) - lastEventId) |-> lastEventId + i]

\* the mailboxes whose counters an entry asks for
Touched(e) ==
    IF e.command \in {"EXISTS", "EXPUNGE"} /\ e.mailbox # "" THEN {e.mailbox}
    ELSE IF e.command = "FETCH" /\ e.mailbox # "" /\ (e.unseen \/ e.unseenChange)
         THEN {e.mailbox}
    ELSE {}

\* mailboxes.add(...) for the mailboxes of S: a Set keeps insertion order
SetAdd(list, S) ==
    IF S \subseteq { list[i] : i \in DOMAIN list } THEN list
    ELSE list \o <<CHOOSE x \in S : TRUE>>

\* processNext of loadJournalStream: cursor.next, write the entry's frame
DrainNext ==
    /\ sse.drain.pc = "next"
    /\ \/ /\ CanFail
          /\ faults' = faults + 1
          /\ sse' = DrainDone(sse, TRUE)
       \/ /\ UNCHANGED faults
          /\ LET d == sse.drain
                 cur == IF d.opened THEN d.cur ELSE JournalAfter(journal, d.lastEventId)
             IN  IF cur = <<>>
                 THEN IF d.mailboxes = <<>>
                      THEN sse' = DrainDone(sse, FALSE)
                      ELSE sse' = [sse EXCEPT !.drain.pc = "counters",
                                              !.drain.todo = d.mailboxes]
                 ELSE LET e == journal[Head(cur)]
                          n == [d EXCEPT !.opened = TRUE, !.cur = Tail(cur),
                                         !.lastEventId = Head(cur)]
                      IN  IF e.command = ""
                          THEN sse' = [sse EXCEPT !.drain = n]
                          ELSE sse' = [sse EXCEPT
                                         !.drain = [n EXCEPT !.processed = @ + 1,
                                                             !.mailboxes = SetAdd(@, Touched(e))],
                                         !.out = Append(@, FormatJournalData(e.command, Head(cur),
                                                                            e.mailbox))]
    /\ UNCHANGED <<store, journal>>

\* emitCounters: the COUNTERS frame of the next mailbox, or done
EmitCounters ==
    /\ sse.drain.pc = "counters"
    /\ LET d == sse.drain
       IN  IF d.todo = <<>>
           THEN sse' = DrainDone(sse, FALSE)
           ELSE sse' = [sse EXCEPT
                          !.drain.todo = Tail(d.todo),
                          !.out = Append(@, FormatJournalData("COUNTERS", d.lastEventId,
                                                             Head(d.todo)))]
    /\ UNCHANGED <<store, journal, faults>>

\* the notifier calls the listener: journalReader
JournalReader ==
    /\ sse.listeners > 0
    /\ IF sse.journalReading \/ sse.closed
       THEN sse' = [sse EXCEPT !.dropped = TRUE, !.poked = Len(journal)]
       ELSE sse' = [sse EXCEPT !.journalReading = TRUE, !.dropped = FALSE,
                               !.poked = Len(journal),
                               !.drain = LoadJournalStream("reader", sse.lastEventId)]
    /\ sse' # sse
    /\ UNCHANGED <<store, journal, faults>>

\* the idle timer expires
IdleTimeout ==
    /\ sse.idleTimer
    /\ sse.idleCounter <= MaxIdle
    /\ sse' = SendIdleComment(sse)
    /\ UNCHANGED <<store, journal, faults>>

\* end, error or timeout of the connection: done of setup
ConnectionEnd ==
    /\ sse.pc = "live"
    /\ sse.ends < MaxEnds
    /\ sse' = IF sse.finished THEN [sse EXCEPT !.ends = @ + 1]
              ELSE Close([sse EXCEPT !.ends = @ + 1, !.finished = TRUE])
    /\ UNCHANGED <<store, journal, faults>>

NextSSE ==
    \/ JournalAppend \/ SseRequest \/ SseFindUser \/ SseFindLatest \/ DrainNext
    \/ EmitCounters \/ JournalReader \/ IdleTimeout \/ ConnectionEnd

SpecSSE == Init /\ [][NextSSE]_vars

\* A client that stays connected: every database call of the endpoint and of a
\* drain is answered (its callback runs); when handlers append entries and when
\* the notifier calls the listener is up to the environment.
NextLive ==
    \/ JournalAppend \/ SseRequest \/ SseFindUser \/ SseFindLatest \/ DrainNext
    \/ EmitCounters \/ JournalReader

SpecLive ==
    /\ Init
    /\ [][NextLive]_vars
    /\ WF_vars(SseFindUser) /\ WF_vars(SseFindLatest)
    /\ WF_vars(DrainNext) /\ WF_vars(EmitCounters)

\* ------------------------------------------------------------ thread resolver

\* adds that resolve a thread in one behaviour
MaxAdds == 3
\* referenceIds = Array.from(referenceIds).slice(0, 10)
MaxReferenceIds == 10

\* a header the message does not carry: [].concat(undefined || []).pop() || ''
NoHeader == <<>>

\* the words reply and forward prefixes are made of: /^(re|fwd?)\s*:/i
IsPrefix(w) == w \in {"Re:", "RE:", "re:", "Fwd:", "FW:", "fw:"}
\* /\s*\(fwd\)\s*$/i
IsSuffix(w) == w \in {"(fwd)", "(FWD)"}

\* one pass of subject.replace(/^(re|fwd?)\s*:|\s*\(fwd\)\s*$/gi, '').trim() over the
\* words of the subject: the prefix at the start and the suffix at the end go
StripOnce(subject) ==
    LET a == IF Len(subject) > 0 /\ IsPrefix(Head(subject)) THEN Tail(subject) ELSE subject
    IN  IF Len(a) > 0 /\ IsSuffix(a[Len(a)]) THEN SubSeq(a, 1, Len(a) - 1) ELSE a

\* normalizeSubject: the pass is repeated while it matched
RECURSIVE normalizeSubject(_)
normalizeSubject(subject) ==
    IF StripOnce(subject) = subject THEN subject ELSE normalizeSubject(StripOnce(subject))

\* id.replace(/[<>]/g, '').trim()
Strip(id) ==
    CASE id = "<a>" -> "a"
      [] id = "<b>" -> "b"
      [] id = "<c>" -> "c"
      [] id = "<>" -> ""
      [] OTHER -> id

\* (thread-index).substr(0, 22)
Substr22(value) ==
    IF value = "AQHSabcdefghijklmnopqrXYZ" THEN "AQHSabcdefghijklmnopqr" ELSE value

\* crypto.createHash('sha1').update(id).digest('base64').replace(/[=]+$/g, '')
Sha1(id) == "sha1:" \o id

\* new Set(list), as the array of its members in insertion order
RECURSIVE Unique(_)
Unique(list) ==
    IF list = <<>> THEN <<>>
    ELSE LET init == Unique(SubSeq(list, 1, Len(list) - 1))
             last == list[Len(list)]
         IN  IF \E i \in 1..Len(init) : init[i] = last THEN init ELSE Append(init, last)

\* the words of the four headers joined by ' ' and split on whitespace
HeaderWords(header) ==
    header.messageId \o header.inReplyTo
        \o [i \in 1..Len(header.threadIndex) |-> Substr22(header.threadIndex[i])]
        \o header.references

\* referenceIds of getThreadId
ReferenceIds(header) ==
    LET words == HeaderWords(header)
        ids == SelectSeq([i \in 1..Len(words) |-> Strip(words[i])], LAMBDA id : id # "")
        hashes == Unique([i \in 1..Len(ids) |-> Sha1(ids[i])])
    IN  SubSeq(hashes, 1, IF Len(hashes) < MaxReferenceIds THEN Len(hashes)
                          ELSE MaxReferenceIds)

Range(list) == { list[i] : i \in 1..Len(list) }

\* the messages delivered: subject words and the last value of each header
Header(messageId, inReplyTo, threadIndex, references) ==
    [messageId |-> messageId, inReplyTo |-> inReplyTo, threadIndex |-> threadIndex,
     references |-> references]

ThreadCalls ==
    { [subject |-> <<"Re:", "hello">>,
       header |-> Header(<<"<a>">>, NoHeader, NoHeader, NoHeader)],
      [subject |-> <<"hello">>,
       header |-> Header(<<"<b>">>, NoHeader, NoHeader, NoHeader)],
      [subject |-> <<"Fwd:", "RE:", "hello", "(fwd)">>,
       header |-> Header(<<"<c>">>, <<"<a>">>, NoHeader, <<"<b>", "<a>">>)],
      [subject |-> <<"hello">>,
       header |-> Header(<<"<>">>, NoHeader, NoHeader, NoHeader)],
      [subject |-> <<"bye">>,
       header |-> Header(<<"<a>">>, NoHeader, <<"AQHSabcdefghijklmnopqrXYZ">>, NoHeader)],
      [subject |-> <<"bye", "(fwd)">>,
       header |-> Header(NoHeader, NoHeader, <<"AQHSabcdefghijklmnopqr">>, NoHeader)] }

\* the variables the thread resolver leaves alone
mail == <<mailboxes, messages, storageUsed, attachments, journal, streams, proc, sse,
          conn, html, nextId, ops>>

\* the documents matching {user, ids: {$in: referenceIds}, subject}
MatchingThreads(subject, referenceIds) ==
    { i \in 1..Len(threads) :
        /\ threads[i].subject = subject
        /\ threads[i].ids \cap Range(referenceIds) # {} }

\* prepareMessage (subject) and the head of getThreadId (referenceIds)
ResolveBegin(p) ==
    /\ adds.proc[p].pc = "idle"
    /\ Cardinality(adds.stored)
         + Cardinality({ q \in Procs : adds.proc[q].pc # "idle" }) < MaxAdds
    /\ \E c \in ThreadCalls :
         adds' = [adds EXCEPT !.proc[p] =
                     [pc |-> "find", subject |-> normalizeSubject(c.subject),
                      referenceIds |-> ReferenceIds(c.header), thread |-> 0, err |-> ""]]
    /\ UNCHANGED <<mail, threads, faults>>

\* collection('threads').findOneAndUpdate(..., {$addToSet: {ids: {$each: referenceIds}}})
ResolveFind(p) ==
    /\ adds.proc[p].pc = "find"
    /\ \/ /\ CanFail
          /\ faults' = faults + 1
          /\ adds' = [adds EXCEPT !.proc[p].pc = "idle", !.proc[p].err = "db"]
          /\ UNCHANGED threads
       \/ /\ UNCHANGED faults
          /\ LET found == MatchingThreads(adds.proc[p].subject, adds.proc[p].referenceIds)
             IN  IF found = {}
                 THEN /\ adds' = [adds EXCEPT !.proc[p].pc = "insert"]
                      /\ UNCHANGED threads
                 ELSE \E i \in found :
                        /\ threads' = [threads EXCEPT ![i].ids =
                                          @ \cup Range(adds.proc[p].referenceIds)]
                        /\ adds' = [adds EXCEPT !.proc[p].pc = "store",
                                                !.proc[p].thread = threads[i].id]
    /\ UNCHANGED mail

\* thread not found: collection('threads').insertOne({user, subject, ids, updated})
ResolveInsert(p) ==
    /\ adds.proc[p].pc = "insert"
    /\ \/ /\ CanFail
          /\ faults' = faults + 1
          /\ adds' = [adds EXCEPT !.proc[p].pc = "idle", !.proc[p].err = "db"]
          /\ UNCHANGED threads
       \/ /\ UNCHANGED faults
          /\ threads' = Append(threads, [id |-> Len(threads) + 1,
                                         subject |-> adds.proc[p].subject,
                                         ids |-> Range(adds.proc[p].referenceIds)])
          /\ adds' = [adds EXCEPT !.proc[p].pc = "store",
                                  !.proc[p].thread = Len(threads) + 1]
    /\ UNCHANGED mail

\* messageData.thread = thread; collection('messages').insertOne(messageData)
ResolveStore(p) ==
    /\ adds.proc[p].pc = "store"
    /\ adds' = [adds EXCEPT
                  !.proc[p].pc = "idle",
                  !.stored = @ \cup { [n |-> Cardinality(adds.stored) + 1,
                                       subject |-> adds.proc[p].subject,
                                       referenceIds |-> Range(adds.proc[p].referenceIds),
                                       thread |-> adds.proc[p].thread] }]
    /\ UNCHANGED <<mail, threads, faults>>

NextThreads ==
    \E p \in Procs : ResolveBegin(p) \/ ResolveFind(p) \/ ResolveInsert(p) \/ ResolveStore(p)

SpecThreads == Init /\ [][NextThreads]_vars

\* ------------------------------------------------------- AUTHENTICATE PLAIN

\* AUTHENTICATE commands the client sends on one connection
MaxCommands == 3

\* the tokens a client sends, inline or after the '+' continuation
AuthTokens ==
    { "", "  ", "AGpvZQBwdw==", "AGpvZQBiYWQ=", "am9lAHB3", "ACBqb2UgAHB3", "AAA" }

\* (value || '').toString().trim()
Trim(value) ==
    CASE value = "  " -> ""
      [] value = " joe " -> "joe"
      [] OTHER -> value

\* new Buffer(token, 'base64').toString().split('\x00'): the decoder takes a token
\* without padding, so "AAA" is the two bytes NUL NUL
DecodeToken(token) ==
    CASE token = "AGpvZQBwdw==" -> <<"", "joe", "pw">>
      [] token = "AGpvZQBiYWQ=" -> <<"", "joe", "bad">>
      [] token = "am9lAHB3" -> <<"joe", "pw">>
      [] token = "ACBqb2UgAHB3" -> <<"", " joe ", "pw">>
      [] token = "AAA" -> <<"", "", "">>
      [] OTHER -> <<"">>

\* responses of the handler
Reply(response, code, message) == [response |-> response, code |-> code, message |-> message]

\* a reply or an error handed to the callback of the command: the connection goes
\* from c to after; the record keeps both and what onAuth had returned
Replied(c, via, outcome, err, reply, after) ==
    [after EXCEPT !.log = Append(@, [via |-> via, outcome |-> outcome, err |-> err,
                                     reply |-> reply, secure |-> c.secure,
                                     before |-> [state |-> c.state, user |-> c.user],
                                     after |-> [state |-> after.state,
                                                user |-> after.user]])]

\* a handler that never asks for TLS
TlsNeverRequired(c) == FALSE

\* !this.secure && !options.disableSTARTTLS && !options.ignoreSTARTTLS
TlsRequired(c) ==
    ~c.secure /\ ~c.options.disableSTARTTLS /\ ~c.options.ignoreSTARTTLS

\* authenticate(connection, token, callback)
Authenticate(c, token, via) ==
    LET data == DecodeToken(token)
    IN  IF Len(data) # 3
        THEN Replied(c, via, "", "", Reply("BAD", "", "Invalid SASL argument"), c)
        ELSE [c EXCEPT !.pending = Append(@, [token |-> token, username |-> Trim(data[2]),
                                              password |-> Trim(data[3]), via |-> via]),
                       !.invoked = Append(@, c.secure)]

\* the variables the IMAP connection leaves alone
world == <<mailboxes, messages, storageUsed, attachments, journal, streams, proc, sse,
           threads, adds, html, nextId, ops, faults>>

\* a client connects to a server created with its options
AuthConnect ==
    /\ conn.pc = "none"
    /\ \E secure, disableSTARTTLS, ignoreSTARTTLS, onAuth \in BOOLEAN :
         conn' = [conn EXCEPT !.pc = "open", !.secure = secure,
                              !.options = [disableSTARTTLS |-> disableSTARTTLS,
                                           ignoreSTARTTLS |-> ignoreSTARTTLS,
                                           onAuth |-> onAuth]]
    /\ UNCHANGED world

\* STARTTLS upgrades the connection while no command is being handled
StartTls ==
    /\ conn.pc = "open"
    /\ ~conn.secure
    /\ ~conn.options.disableSTARTTLS
    /\ ~conn.paused
    /\ ~conn.nextHandler
    /\ conn' = [conn EXCEPT !.secure = TRUE]
    /\ UNCHANGED world

\* handler(command, callback, next), dispatched in state 'Not Authenticated'
AuthCommand ==
    /\ conn.pc = "open"
    /\ conn.state = "Not Authenticated"
    /\ ~conn.paused
    /\ ~conn.nextHandler
    /\ conn.commands < MaxCommands
    /\ \E value \in AuthTokens :
         LET token == Trim(value)
             c == [conn EXCEPT !.commands = @ + 1]
         IN  conn' =
               IF TlsRequired(c)
               THEN Replied(c, "handler", "", "", Reply("BAD", "", "Run STARTTLS first"), c)
               ELSE IF ~c.options.onAuth
               THEN Replied(c, "handler", "", "",
                            Reply("NO", "", "Authentication not implemented"), c)
               ELSE IF token = ""
               THEN [c EXCEPT !.nextHandler = TRUE, !.sent = Append(@, "+")]
               ELSE LET a == Authenticate(c, token, "inline")
                    IN  [a EXCEPT !.paused = Len(a.pending) > Len(c.pending)]
    /\ UNCHANGED world

\* this._nextHandler(token, next): the line after '+'
AuthContinue ==
    /\ conn.pc = "open"
    /\ conn.nextHandler
    /\ \E token \in AuthTokens :
         conn' = Authenticate([conn EXCEPT !.nextHandler = FALSE], token, "continuation")
    /\ UNCHANGED world

\* the callback onAuth was given: (err, response)
OnAuthReturn ==
    /\ conn.pc = "open"
    /\ Len(conn.pending) > 0
    /\ \E i \in 1..Len(conn.pending), outcome \in {"error", "none", "user"} :
         LET call == conn.pending[i]
             c == [conn EXCEPT
                     !.pending = SubSeq(@, 1, i - 1) \o SubSeq(@, i + 1, Len(@)),
                     !.paused = IF call.via = "inline" THEN FALSE ELSE @]
         IN  conn' =
               CASE outcome = "error" ->
                      Replied(c, call.via, outcome, "auth", Reply("", "", ""), c)
                 [] outcome = "none" ->
                      Replied(c, call.via, outcome, "",
                              Reply("NO", "AUTHENTICATIONFAILED", "Invalid credentials"), c)
                 [] OTHER ->
                      LET after == [c EXCEPT !.user = call.username,
                                             !.state = "Authenticated"]
                      IN  Replied(c, call.via, outcome, "",
                                  Reply("OK", "", "authenticated"), after)
    /\ UNCHANGED world

NextAuth == AuthConnect \/ StartTls \/ AuthCommand \/ AuthContinue \/ OnAuthReturn

SpecAuth == Init /\ [][NextAuth]_vars

\* ------------------------------------------------ messageData.html of add

\* the characters of an HTML part: one of one byte, one of two bytes in UTF-8
Chars == {"a", "e'"}

\* Buffer.byteLength of a character and of a string
CharBytes(c) == IF c = "a" THEN 1 ELSE 2

RECURSIVE byteLength(_)
byteLength(str) == IF str = <<>> THEN 0 ELSE CharBytes(Head(str)) + byteLength(Tail(str))

\* str.substr(0, n): the first n characters
substr(str, n) == SubSeq(str, 1, IF n < Len(str) THEN n ELSE Len(str))

\* the strings of at most MaxPartLen characters
HtmlParts == UNION { [1..n -> Chars] : n \in 0..MaxPartLen }

\* maildata.html: lists of at most MaxParts parts
HtmlLists == UNION { [1..n -> HtmlParts] : n \in 0..MaxParts }

\* the callback of maildata.html.map: what it returns for one part, and htmlSize
\* after it
MapPart(htmlSize, part) ==
    IF htmlSize >= MAX_HTML_CONTENT \/ part = <<>>
    THEN [out |-> <<>>, htmlSize |-> htmlSize]
    ELSE IF htmlSize + byteLength(part) <= MAX_HTML_CONTENT
    THEN [out |-> part, htmlSize |-> htmlSize + byteLength(part)]
    ELSE LET cut == substr(part, htmlSize + byteLength(part) - MAX_HTML_CONTENT)
         IN  [out |-> cut, htmlSize |-> htmlSize + byteLength(cut)]

\* maildata.html.map(...) from htmlSize
RECURSIVE MapHtml(_, _)
MapHtml(htmlSize, parts) ==
    IF parts = <<>> THEN <<>>
    ELSE LET r == MapPart(htmlSize, Head(parts))
         IN  <<r.out>> \o MapHtml(r.htmlSize, Tail(parts))

\* messageData.html = maildata.html.map(...).filter(html => html)
StoredHtml(parts) == SelectSeq(MapHtml(0, parts), LAMBDA h : h # <<>>)

\* everything but the HTML parts
page == <<mailboxes, messages, storageUsed, attachments, journal, streams, proc, sse,
          threads, adds, conn, nextId, ops, faults>>

\* the parser hands add the HTML parts of a message
HtmlParse ==
    /\ html.pc = "none"
    /\ \E parts \in HtmlLists : html' = [pc |-> "parsed", parts |-> parts, stored |-> <<>>]
    /\ UNCHANGED page

\* add fills messageData.html
HtmlStore ==
    /\ html.pc = "parsed"
    /\ html' = [html EXCEPT !.pc = "stored", !.stored = StoredHtml(html.parts)]
    /\ UNCHANGED page

NextHtml == HtmlParse \/ HtmlStore

SpecHtml == Init /\ [][NextHtml]_vars

\* ==================================================================== claims

\* the mailbox in which a caller reserves UIDs
SlotMailbox(r) == IF r.op \in {"move", "copy"} THEN r.dest.id ELSE r.mb.id

\* the callers that hold a reserved UID
Holders == { p \in Procs : proc[p].pc # "idle" /\ proc[p].uid > 0 }

\* a caller that ran its handler from invocation to callback with no other
\* handler in flight
RanAlone(p) == proc[p].pc = "done" /\ proc[p].pre.valid

\* the stored documents of a mailbox with the (hdate, msgid) of a delivery
SameMessage(msgs, mailbox, raw) ==
    { m \in msgs : m.mailbox = mailbox /\ m.hdate = raw.hdate /\ m.msgid = raw.msgid }

\* C1: in every interleaving of add (fresh and replace-in-place), move and
\* copy, no two stored messages of a mailbox share a uid, a reserved uid is
\* below uidNext and held by one caller only, and every reservation hands out
\* the uidNext it found and raises uidNext by one, so that a later
\* reservation yields a strictly larger uid than any earlier one.
C1_DistinctUids ==
    /\ \A m, n \in messages : (m.mailbox = n.mailbox /\ m.uid = n.uid) => m = n
    /\ \A p \in Holders :
         /\ proc[p].uid < mailboxes[SlotMailbox(proc[p])].uidNext
         /\ \A q \in Holders \ {p} :
              SlotMailbox(proc[q]) = SlotMailbox(proc[p]) => proc[q].uid # proc[p].uid
         /\ \A m \in messages :
              (m.mailbox = SlotMailbox(proc[p]) /\ m.uid = proc[p].uid) => m.id = proc[p].msg.id

C1_Reservation ==
    \A p \in Procs :
        (proc'[p].pc # "idle" /\ proc'[p].uid # proc[p].uid) =>
            /\ proc'[p].uid = mailboxes[SlotMailbox(proc'[p])].uidNext
            /\ mailboxes'[SlotMailbox(proc'[p])].uidNext = proc'[p].uid + 1

C1_UniqueIncreasingUids == [](C1_DistinctUids) /\ [][C1_Reservation]_vars

\* two callers hold reservations of the same mailbox at the same time
C1_Witness ==
    \E p, q \in Holders :
        p # q /\ SlotMailbox(proc[p]) = SlotMailbox(proc[q]) /\ proc[p].uid < proc[q].uid

\* C2: in every reachable state every stored message has uid < uidNext and
\* modseq <= modifyIndex of the mailbox it is stored in.
C2_MessageBelowTip ==
    \A m \in messages :
        m.mailbox \in DOMAIN mailboxes =>
            /\ m.uid < mailboxes[m.mailbox].uidNext
            /\ m.modseq <= mailboxes[m.mailbox].modifyIndex

\* C3: no step decreases uidNext or modifyIndex of a mailbox or changes its
\* uidValidity, the failure and rollback paths included.
C3_Step ==
    \A b \in DOMAIN mailboxes :
        /\ b \in DOMAIN mailboxes'
        /\ mailboxes'[b].uidNext >= mailboxes[b].uidNext
        /\ mailboxes'[b].modifyIndex >= mailboxes[b].modifyIndex
        /\ mailboxes'[b].uidValidity = mailboxes[b].uidValidity

C3_TipNeverDecreases == [][C3_Step]_vars

\* an add was rolled back after it had reserved a UID
C3_Witness ==
    \E p \in Procs :
        /\ proc[p].op = "add" /\ proc[p].pc = "done" /\ proc[p].err # ""
        /\ proc[p].quota /\ proc[p].uid > 0

\* C4: a fresh add that ran alone into a mailbox at tip (u, m) stored exactly
\* one new message, with uid u and modseq m + 1, left the tip at (u+1, m+1)
\* and returned status "new" with uid u.
C4_FreshAdd ==
    \A p \in Procs :
        (RanAlone(p) /\ proc[p].op = "add" /\ proc[p].status = "new") =>
            LET b == proc[p].mb.id
                u == proc[p].pre.mailboxes[b].uidNext
                m == proc[p].pre.mailboxes[b].modifyIndex
                new == messages \ proc[p].pre.messages
            IN  /\ proc[p].pre.messages \subseteq messages
                /\ Cardinality(new) = 1
                /\ \A d \in new : /\ d.id = proc[p].id /\ d.mailbox = b
                                   /\ d.uid = u /\ d.modseq = m + 1
                /\ mailboxes[b].uidNext = u + 1
                /\ mailboxes[b].modifyIndex = m + 1
                /\ proc[p].resUid = u
                /\ proc[p].resId = proc[p].id

\* the add of the scenario: tip (5, 10) gives UID 5, modseq 11, tip (6, 11)
C4_Witness ==
    \E p \in Procs :
        /\ RanAlone(p) /\ proc[p].op = "add" /\ proc[p].status = "new"
        /\ proc[p].pre.mailboxes["m1"].uidNext = 5
        /\ proc[p].pre.mailboxes["m1"].modifyIndex = 10
        /\ proc[p].resUid = 5
        /\ mailboxes["m1"].uidNext = 6 /\ mailboxes["m1"].modifyIndex = 11
        /\ \E d \in messages : d.id = proc[p].id /\ d.uid = 5 /\ d.modseq = 11

\* C5: every successful add, update, move and del that ran alone raised
\* modifyIndex of every mailbox whose messages it changed: the target of add,
\* the mailbox of update, the source and the destination of move, the mailbox
\* del removed the message from.
Raised(p, b) == mailboxes[b].modifyIndex > proc[p].pre.mailboxes[b].modifyIndex

C5_MutationRaisesModseq ==
    \A p \in Procs :
        (RanAlone(p) /\ proc[p].err = "") =>
            /\ (proc[p].op = "add" /\ proc[p].status \in {"new", "update"}) =>
                    Raised(p, proc[p].mb.id)
            /\ (proc[p].op = "update" /\ proc[p].count > 0) => Raised(p, proc[p].mb.id)
            /\ (proc[p].op = "move" /\ proc[p].sourceUid # <<>>) =>
                    Raised(p, proc[p].mb.id) /\ Raised(p, proc[p].dest.id)
            /\ (proc[p].op = "del" /\ proc[p].msg \in proc[p].pre.messages) =>
                    Raised(p, proc[p].mb.id)

\* C6: an add with skipExisting that ran alone and found the message stored
\* returns "skip" with the uid and id of a stored duplicate and changes
\* nothing: messages, mailbox tips, storageUsed, attachments and journal are
\* as before the call, and a mailbox that held one document of the message
\* still holds exactly that one.
C6_SkipChangesNothing ==
    \A p \in Procs :
        (RanAlone(p) /\ proc[p].op = "add" /\ proc[p].status = "skip") =>
            LET dup == SameMessage(messages, proc[p].mb.id, proc[p].raw)
            IN  /\ messages = proc[p].pre.messages
                /\ mailboxes = proc[p].pre.mailboxes
                /\ storageUsed = proc[p].pre.storageUsed
                /\ attachments = proc[p].pre.attachments
                /\ Len(journal) = proc[p].pre.jlen
                /\ \E d \in dup : d.uid = proc[p].resUid /\ d.id = proc[p].resId
                /\ Cardinality(SameMessage(proc[p].pre.messages, proc[p].mb.id, proc[p].raw)) = 1
                       => Cardinality(dup) = 1

\* the same delivery added twice: the second call skipped the document the
\* first call stored
C6_Witness ==
    \E p \in Procs :
        /\ RanAlone(p) /\ proc[p].op = "add" /\ proc[p].status = "skip"
        /\ proc[p].raw = RawY
        /\ Cardinality(SameMessage(messages, "m1", RawY)) = 1

\* C7: an add of a duplicate E without skipExisting that ran alone rewrote E
\* in place: same _id, uid = the uidNext found (greater than the old uid),
\* modseq = the modifyIndex found + 1, the flags of the call, the tip advanced
\* by (1, 1), no document more or less, and the journal grew by EXPUNGE(old
\* uid) followed by EXISTS(new uid).
C7_ReplaceInPlace ==
    \A p \in Procs :
        (RanAlone(p) /\ proc[p].op = "add" /\ proc[p].status = "update") =>
            LET b == proc[p].mb.id
                E == proc[p].existing
                u == proc[p].pre.mailboxes[b].uidNext
                m == proc[p].pre.mailboxes[b].modifyIndex
                n == proc[p].pre.jlen
            IN  /\ E \in proc[p].pre.messages
                /\ u > E.uid
                /\ messages = (proc[p].pre.messages \ {E})
                                 \cup {[E EXCEPT !.uid = u, !.modseq = m + 1,
                                                 !.flags = proc[p].flags]}
                /\ mailboxes[b].uidNext = u + 1
                /\ mailboxes[b].modifyIndex = m + 1
                /\ proc[p].resUid = u /\ proc[p].resId = E.id
                /\ Len(journal) = n + 2
                /\ journal[n + 1].command = "EXPUNGE" /\ journal[n + 1].uid = E.uid
                /\ journal[n + 2].command = "EXISTS" /\ journal[n + 2].uid = u
                /\ journal[n + 2].modseq = m + 1

\* the scenario: tip (6, 11) with the duplicate at UID 5 gives UID 6,
\* modseq 12, tip (7, 12)
C7_Witness ==
    \E p \in Procs :
        /\ RanAlone(p) /\ proc[p].op = "add" /\ proc[p].status = "update"
        /\ proc[p].existing.uid = 5
        /\ proc[p].resUid = 6
        /\ mailboxes["m1"].uidNext = 7 /\ mailboxes["m1"].modifyIndex = 12
        /\ \E d \in messages : d.id = proc[p].existing.id /\ d.uid = 6 /\ d.modseq = 12

\* C8: when two adds without skipExisting that probed the same duplicate E
\* have both completed without error, the mailbox holds exactly one document
\* of that message, and it carries E's _id.
C8_RaceKeepsOneDocument ==
    \A p, q \in Procs :
        ( /\ p # q
          /\ proc[p].pc = "done" /\ proc[q].pc = "done"
          /\ proc[p].op = "add" /\ proc[q].op = "add"
          /\ proc[p].err = "" /\ proc[q].err = ""
          /\ proc[p].existing # NoMsg /\ proc[q].existing = proc[p].existing ) =>
            \A d \in SameMessage(messages, proc[p].mb.id, proc[p].raw) :
                d.id = proc[p].existing.id

C10_DelAccounts ==
    \A p \in Procs :
        ( /\ RanAlone(p) /\ proc[p].op = "del" /\ proc[p].err = ""
          /\ proc[p].msg \in proc[p].pre.messages ) =>
            /\ messages = proc[p].pre.messages \ {proc[p].msg}
            /\ storageUsed[UserId] = proc[p].pre.storageUsed[UserId] - proc[p].msg.size
            /\ Len(journal) = proc[p].pre.jlen + 1
            /\ journal[Len(journal)].command = "EXPUNGE"
            /\ journal[Len(journal)].uid = proc[p].msg.uid

\* no handler is in flight
Quiescent == \A p \in Procs : proc[p].pc \in {"idle", "done"}

\* the stored messages whose attachmentMap references record k
Referencing(k) == { m \in messages : k[1] \in m.att /\ m.magic = k[2] }

\* C11: whenever every started add, move, copy and del has completed, the
\* refcount of every attachment record equals the number of stored messages
\* that reference it, no record has refcount 0, and every attachment a stored
\* message references has a record.
C11_RefcountSound ==
    Quiescent =>
        /\ \A k \in DOMAIN attachments :
              attachments[k] > 0 /\ attachments[k] = Cardinality(Referencing(k))
        /\ \A m \in messages : AttKeys(m.att, m.magic) \subseteq DOMAIN attachments

\* the UIDs of a set of messages in ascending order
UidsOf(S) == [i \in 1..Cardinality(S) |-> SortByUid(S)[i].uid]

\* C12: a successful move that ran alone returns "moved" with sourceUid =
\* the UIDs of the matched source messages in ascending order and
\* destinationUid of the same length; destinationUid[i] is the i-th UID
\* reserved from the destination's previous uidNext, the destination stores
\* under it the message that had sourceUid[i], uidNext of the destination
\* advanced by the number of messages, and no matched message is left in the
\* source.
C12_MoveResult ==
    \A p \in Procs :
        (RanAlone(p) /\ proc[p].op = "move" /\ proc[p].status = "moved") =>
            LET src == proc[p].mb.id
                dst == proc[p].dest.id
                matched == FindMessages(proc[p].pre.messages, src, proc[p].query)
                n == Cardinality(matched)
                u == proc[p].pre.mailboxes[dst].uidNext
            IN  /\ proc[p].sourceUid = UidsOf(matched)
                /\ Len(proc[p].destinationUid) = n
                /\ \A i \in 1..n :
                      /\ proc[p].destinationUid[i] = u + i - 1
                      /\ \E d \in messages :
                            /\ d.mailbox = dst /\ d.uid = proc[p].destinationUid[i]
                            /\ d.root = SortByUid(matched)[i].root
                            /\ d.msgid = SortByUid(matched)[i].msgid
                /\ mailboxes[dst].uidNext = u + n
                /\ FindMessages(messages, src, proc[p].query) = {}
                /\ Cardinality(messages) = Cardinality(proc[p].pre.messages)

\* two messages were moved: UIDs 4 and 5 of INBOX are UIDs 3 and 4 of Trash
C12_Witness ==
    \E p \in Procs :
        /\ RanAlone(p) /\ proc[p].op = "move" /\ proc[p].status = "moved"
        /\ proc[p].sourceUid = <<4, 5>>
        /\ proc[p].destinationUid = <<3, 4>>
        /\ mailboxes["m2"].uidNext = 5

\* the UIDs of mailbox b after replaying the first n journal entries
RECURSIVE Replay(_, _)
Replay(b, n) ==
    IF n = 0 THEN {}
    ELSE LET e == journal[n]
             before == Replay(b, n - 1)
         IN  IF e.mailbox # b THEN before
             ELSE IF e.command = "EXISTS" THEN before \cup {e.uid}
             ELSE IF e.command = "EXPUNGE" THEN before \ {e.uid}
             ELSE before

\* the UIDs of the messages stored in mailbox b
StoredUids(b) == { m.uid : m \in { x \in messages : x.mailbox = b } }

\* C13: when every started add, move, copy, update and del has returned,
\* with or without an error, replaying the EXISTS and EXPUNGE entries of the
\* journal in order yields for every mailbox exactly the UIDs of the messages
\* stored in it.
C13_JournalTotality ==
    Quiescent => \A b \in DOMAIN mailboxes : Replay(b, Len(journal)) = StoredUids(b)

\* the events of its own a completed add or del told its session about
OwnEvents(r) ==
    IF r.op = "add" /\ r.status = "new" THEN <<Frame("EXISTS", r.resUid)>>
    ELSE IF r.op = "add" /\ r.status = "update"
         THEN <<Frame("EXPUNGE", r.existing.uid), Frame("EXISTS", r.resUid)>>
    ELSE IF r.op = "del" /\ r.status = "deleted" THEN <<Frame("EXPUNGE", r.msg.uid)>>
    ELSE <<>>

\* how often the listener of session sid sees event ev: in the frames written
\* to its stream and in the journal entries the notifier hands to it
Observed(sid, ev, frames, entries) ==
    Cardinality({ i \in DOMAIN frames : frames[i] = ev })
      + Cardinality({ i \in DOMAIN Delivered(entries, sid) :
                        /\ Delivered(entries, sid)[i].command = ev.command
                        /\ Delivered(entries, sid)[i].uid = ev.uid })

\* C14: for a successful add or del with a session S that ran alone, every
\* journal entry it appended carries ignore = S, is withheld from the
\* listener of S and handed to the listener of every other session; and when
\* S has the mailbox selected, S sees each EXISTS / EXPUNGE of the call
\* exactly once, as the frame written to its stream.
C14_OriginSuppression ==
    \A p \in Procs :
        ( /\ RanAlone(p) /\ proc[p].session.id # ""
          /\ proc[p].status \in {"new", "update", "deleted"} ) =>
            LET sid == proc[p].session.id
                own == SubSeq(journal, proc[p].pre.jlen + 1, Len(journal))
                frames == SubSeq(streams[sid], Len(proc[p].pre.streams[sid]) + 1,
                                 Len(streams[sid]))
            IN  /\ \A i \in DOMAIN own : own[i].ignore = sid
                /\ Delivered(own, sid) = <<>>
                /\ \A o \in SessionIds \ {sid} : Delivered(own, o) = own
                /\ Selected(proc[p].session, proc[p].mb) =>
                      \A i \in DOMAIN OwnEvents(proc[p]) :
                          Observed(sid, OwnEvents(proc[p])[i], frames, own) = 1

\* a session that has INBOX selected replaced a message in place: two frames
\* on its stream, two journal entries withheld from it
C14_Witness ==
    \E p \in Procs :
        /\ RanAlone(p) /\ proc[p].op = "add" /\ proc[p].status = "update"
        /\ proc[p].session.id = "s1"
        /\ Len(streams["s1"]) = 2
        /\ Len(journal) = proc[p].pre.jlen + 2
        /\ Delivered(journal, "s2") = journal

\* the journal ids of the entry frames written to the SSE response, in order
EntryFrames(out) == SelectSeq(out, LAMBDA f : f.kind = "data" /\ f.command # "COUNTERS")

\* C15: the entry frames an SSE client that connected with Last-Event-ID = J
\* has received are, at every moment, the journal entries J+1, J+2, ... in
\* this order: none twice, none skipped, across the initial replay and all
\* later drains, a drain that ended with a database error included.
C15_EachEntryOnceInOrder ==
    sse.resume # 0 =>
        \A i \in DOMAIN EntryFrames(sse.out) : EntryFrames(sse.out)[i].id = sse.resume + i

\* C16: a successful update that ran alone raised modifyIndex of its mailbox
\* by exactly one, however many messages matched, left uidNext and every
\* other mailbox alone, stamped every matched message with the new
\* modifyIndex as modseq, and left the messages outside the range as they
\* were.
C16_UpdateBumpsOnce ==
    \A p \in Procs :
        (RanAlone(p) /\ proc[p].op = "update" /\ proc[p].status = "updated") =>
            LET b == proc[p].mb.id
                before == proc[p].pre.mailboxes
                matched == FindMessages(proc[p].pre.messages, b, proc[p].query)
            IN  /\ mailboxes[b].modifyIndex = before[b].modifyIndex + 1
                /\ mailboxes[b].uidNext = before[b].uidNext
                /\ \A o \in DOMAIN mailboxes \ {b} : mailboxes[o] = before[o]
                /\ proc[p].count = Cardinality(matched)
                /\ \A m \in matched :
                      \E d \in messages :
                          /\ d.id = m.id /\ d.mailbox = b /\ d.uid = m.uid
                          /\ d.modseq = before[b].modifyIndex + 1
                /\ proc[p].pre.messages \ matched \subseteq messages
                /\ Cardinality(messages) = Cardinality(proc[p].pre.messages)

\* INBOX at modifyIndex 11 holds UIDs 4 and 5; the update of UID 4 stamps it
\* with modseq 12 and leaves UID 5 at modseq 11
C16_Witness ==
    \E p \in Procs :
        /\ RanAlone(p) /\ proc[p].op = "update" /\ proc[p].status = "updated"
        /\ proc[p].query = {4} /\ proc[p].count = 1
        /\ proc[p].pre.mailboxes["m1"].modifyIndex = 11
        /\ mailboxes["m1"].modifyIndex = 12
        /\ \E d, e \in messages :
              /\ d.mailbox = "m1" /\ d.uid = 4 /\ d.modseq = 12
              /\ e.mailbox = "m1" /\ e.uid = 5 /\ e.modseq = 11

\* the keys the contract of update names
ContractKeys == {"seen", "deleted", "flagged", "draft", "expires"}

\* C17: an update whose changes hold no recognized key fails with 'Nothing
\* was changed', and one on a mailbox the user does not own fails with
\* 'Mailbox is missing'; neither modifies a message, bumps a modifyIndex or
\* appends a journal entry.
C17_NothingChanged ==
    \A p \in Procs :
        (proc[p].op = "update" /\ proc[p].pc = "done") =>
            /\ (DOMAIN proc[p].changes \cap ContractKeys = {}) <=>
                    (proc[p].err = "Nothing was changed")
            /\ (proc[p].target.owner # UserId) => (proc[p].err # "")
            /\ ( /\ RanAlone(p)
                 /\ proc[p].err = "Nothing was changed" \/ proc[p].target.owner # UserId ) =>
                    /\ mailboxes = proc[p].pre.mailboxes
                    /\ messages = proc[p].pre.messages
                    /\ Len(journal) = proc[p].pre.jlen

\* an update with an unknown key, on a mailbox that holds two messages
C17_Witness ==
    \E p \in Procs :
        /\ RanAlone(p) /\ proc[p].op = "update"
        /\ proc[p].err = "Nothing was changed"
        /\ DOMAIN proc[p].changes = {"label"}
        /\ Cardinality(FindMessages(messages, "m1", proc[p].query)) = 2

\* C18: once every add has completed, any two stored messages with the same normalized
\* subject that share a reference-id hash carry the same thread id.
C18_ThreadGrouping ==
    (\A p \in Procs : adds.proc[p].pc = "idle") =>
        \A x, y \in adds.stored :
            (x.subject = y.subject /\ x.referenceIds \cap y.referenceIds # {}) =>
                x.thread = y.thread

\* the EXISTS entries of the journal that add produced for INBOX: every add of the
\* model delivers into INBOX, every move and copy into Trash
AddEntriesOfInbox == { i \in DOMAIN journal :
                         journal[i].command = "EXISTS" /\ journal[i].mailbox = "m1" }

\* C19: whatever the interleaving of add (fresh or replace-in-place), update and
\* move on one mailbox, of any two EXISTS entries that add produced for it the one
\* with the smaller modseq has the smaller uid.
C19_ModseqOrdersUids ==
    \A i, j \in AddEntriesOfInbox :
        journal[i].modseq < journal[j].modseq => journal[i].uid < journal[j].uid

\* two adds ran interleaved: their EXISTS entries reached the journal against the
\* order of their reservations
C19_Witness ==
    \E i, j \in AddEntriesOfInbox :
        /\ i < j
        /\ journal[i].modseq > journal[j].modseq
        /\ journal[i].uid > journal[j].uid

\* an add entry whose modseq skipped a value that an update or a move took
C19_WitnessGap ==
    \E i \in AddEntriesOfInbox :
        /\ journal[i].uid = 5
        /\ journal[i].modseq = 12

\* the handler lets the command through: TLS, or STARTTLS disabled or ignored
TlsSatisfied(secure) ==
    secure \/ conn.options.disableSTARTTLS \/ conn.options.ignoreSTARTTLS

\* C20: AUTHENTICATE PLAIN, token inline or after '+': the connection is
\* 'Authenticated' with session.user set only if TLS is satisfied and onAuth returned
\* that user; onAuth was never invoked without TLS, and a command sent without TLS
\* was answered BAD 'Run STARTTLS first'; an onAuth error or a response without
\* user was answered with the error or NO AUTHENTICATIONFAILED 'Invalid
\* credentials' and left state and session.user as they were.
C20_AuthenticatePlain ==
    /\ (conn.state # "Not Authenticated" \/ conn.user # "") =>
          /\ conn.state = "Authenticated"
          /\ TlsSatisfied(conn.secure)
          /\ \E i \in DOMAIN conn.log :
                /\ conn.log[i].outcome = "user"
                /\ conn.log[i].after = [state |-> "Authenticated", user |-> conn.user]
    /\ \A i \in DOMAIN conn.invoked : TlsSatisfied(conn.invoked[i])
    /\ \A i \in DOMAIN conn.log :
          LET r == conn.log[i]
          IN  /\ ~TlsSatisfied(r.secure) =>
                    /\ r.reply = Reply("BAD", "", "Run STARTTLS first")
                    /\ r.outcome = ""
              /\ r.outcome \in {"error", "none"} =>
                    /\ r.err # "" \/ r.reply = Reply("NO", "AUTHENTICATIONFAILED",
                                                     "Invalid credentials")
                    /\ r.after = r.before
              /\ r.after # r.before =>
                    /\ r.outcome = "user"
                    /\ r.via \in {"inline", "continuation"}

\* a command without TLS was refused, then, after STARTTLS, an inline token was
\* answered NO and a token after '+' authenticated the session
C20_Witness ==
    /\ conn.state = "Authenticated"
    /\ conn.user = "joe"
    /\ ~conn.options.ignoreSTARTTLS
    /\ \E i, j, k \in DOMAIN conn.log :
          /\ i < j /\ j < k
          /\ conn.log[i].reply.message = "Run STARTTLS first"
          /\ conn.log[j].via = "inline" /\ conn.log[j].outcome = "none"
          /\ conn.log[k].via = "continuation" /\ conn.log[k].outcome = "user"

\* a token given inline authenticated the session
C20_WitnessInline ==
    /\ conn.state = "Authenticated"
    /\ \E i \in DOMAIN conn.log : conn.log[i].via = "inline" /\ conn.log[i].outcome = "user"

\* the tokens that are the base64 of authzid NUL user NUL pass with a user
WellFormedPlain == { "AGpvZQBwdw==", "AGpvZQBiYWQ=", "ACBqb2UgAHB3" }

\* C21: a PLAIN token that is not well formed, the token "AAA" in particular, is
\* answered BAD 'Invalid SASL argument' without onAuth being invoked: no onAuth
\* call in flight was made for such a token.
C21_InvalidSaslArgument ==
    \A i \in DOMAIN conn.pending : conn.pending[i].token \in WellFormedPlain

\* the system flag and the boolean column the contract gives a changes key
ContractFlag(k) ==
    CASE k = "seen" -> "\\Seen"
      [] k = "deleted" -> "\\Deleted"
      [] k = "flagged" -> "\\Flagged"
      [] k = "draft" -> "\\Draft"
ContractColumns(m, before, changes) ==
    /\ m.unseen = IF "seen" \in DOMAIN changes THEN ~changes["seen"] ELSE before.unseen
    /\ m.undeleted = IF "deleted" \in DOMAIN changes THEN ~changes["deleted"]
                     ELSE before.undeleted
    /\ m.flagged = IF "flagged" \in DOMAIN changes THEN changes["flagged"]
                   ELSE before.flagged
    /\ m.draft = IF "draft" \in DOMAIN changes THEN changes["draft"] ELSE before.draft

\* C22: after an update with changes {k: b}, k one of seen, deleted, flagged, draft,
\* that ran alone, every matched message has the system flag of k exactly when b
\* is true and its boolean column as the table says; the columns of the keys not
\* in changes are as they were.
C22_UpdateFlags ==
    \A p \in Procs :
        (RanAlone(p) /\ proc[p].op = "update" /\ proc[p].status = "updated") =>
            \A before \in FindMessages(proc[p].pre.messages, proc[p].mb.id, proc[p].query) :
                \E m \in messages :
                    /\ m.id = before.id
                    /\ \A k \in DOMAIN proc[p].changes \cap {"seen", "deleted", "flagged", "draft"} :
                          (ContractFlag(k) \in m.flags) <=> proc[p].changes[k]
                    /\ ContractColumns(m, before, proc[p].changes)

\* C23: after a move with updates {k: b}, k one of seen, deleted, flagged, draft,
\* that ran alone, every message it inserted into the destination has the system
\* flag of k exactly when b is true and its boolean column as the table of update
\* says.
C23_MoveFlags ==
    \A p \in Procs :
        (RanAlone(p) /\ proc[p].op = "move" /\ proc[p].status = "moved") =>
            \A m \in messages \ proc[p].pre.messages :
                m.mailbox = proc[p].dest.id =>
                    \A k \in DOMAIN proc[p].changes \cap {"seen", "deleted", "flagged", "draft"} :
                        /\ (ContractFlag(k) \in m.flags) <=> proc[p].changes[k]
                        /\ k = "seen" => m.unseen = ~proc[p].changes[k]
                        /\ k = "deleted" => m.undeleted = ~proc[p].changes[k]
                        /\ k = "flagged" => m.flagged = proc[p].changes[k]
                        /\ k = "draft" => m.draft = proc[p].changes[k]

\* the journal entries appended since caller p was invoked
AppendedBy(p) == { i \in DOMAIN journal : i > proc[p].pre.jlen }

\* C24: an update that ran alone appended exactly one FETCH entry per message it
\* modified, and the flags of each entry are the flags the message has stored after
\* the update.
C24_FetchCarriesNewFlags ==
    \A p \in Procs :
        (RanAlone(p) /\ proc[p].op = "update" /\ proc[p].status = "updated") =>
            LET matched == FindMessages(proc[p].pre.messages, proc[p].mb.id, proc[p].query)
            IN  /\ \A i \in AppendedBy(p) : journal[i].command = "FETCH"
                /\ Cardinality(AppendedBy(p)) = Cardinality(matched)
                /\ \A m \in matched :
                      \E i \in AppendedBy(p), d \in messages :
                          /\ journal[i].message = m.id /\ journal[i].uid = m.uid
                          /\ d.id = m.id
                          /\ journal[i].flags = d.flags

\* C25: the journal entries a move that ran alone appended are pairs in source-UID
\* ascending order: the EXPUNGE of a message on the source immediately followed by
\* its EXISTS on the destination.
C25_MovePairs ==
    \A p \in Procs :
        (RanAlone(p) /\ proc[p].op = "move" /\ proc[p].status = "moved") =>
            LET src == proc[p].mb.id
                dst == proc[p].dest.id
                matched == FindMessages(proc[p].pre.messages, src, proc[p].query)
                n == Cardinality(matched)
                a == proc[p].pre.jlen
                u == proc[p].pre.mailboxes[dst].uidNext
            IN  /\ Len(journal) = a + 2 * n
                /\ \A i \in 1..n :
                      /\ journal[a + 2 * i - 1].command = "EXPUNGE"
                      /\ journal[a + 2 * i - 1].mailbox = src
                      /\ journal[a + 2 * i - 1].uid = UidsOf(matched)[i]
                      /\ journal[a + 2 * i].command = "EXISTS"
                      /\ journal[a + 2 * i].mailbox = dst
                      /\ journal[a + 2 * i].uid = u + i - 1

\* ceil(n / b)
Ceil(n, b) == (n + b - 1) \div b

\* the addEntries calls caller p made for mailbox b
CallsFor(p, b) == SelectSeq(proc[p].calls, LAMBDA c : c.mailbox = b)

RECURSIVE SumOf(_)
SumOf(calls) == IF calls = <<>> THEN 0 ELSE Head(calls).n + SumOf(Tail(calls))

\* k calls carried n entries, each call between one and BULK_BATCH_SIZE of them
Batched(calls, n) ==
    /\ Len(calls) = Ceil(n, BULK_BATCH_SIZE)
    /\ \A i \in DOMAIN calls : calls[i].n >= 1 /\ calls[i].n <= BULK_BATCH_SIZE
    /\ SumOf(calls) = n

\* C26: an update that ran alone and modified n messages handed its FETCH entries to
\* the notifier in exactly ceil(n / BULK_BATCH_SIZE) addEntries calls, none of them
\* empty or larger than a batch, every entry in exactly one call; a move of n
\* messages did the same for the source and for the destination mailbox.
C26_BatchedFlush ==
    \A p \in Procs :
        /\ (RanAlone(p) /\ proc[p].op = "update" /\ proc[p].status = "updated") =>
              LET n == Cardinality(FindMessages(proc[p].pre.messages, proc[p].mb.id,
                                                proc[p].query))
              IN  /\ Batched(proc[p].calls, n)
                  /\ Len(journal) = proc[p].pre.jlen + n
        /\ (RanAlone(p) /\ proc[p].op = "move" /\ proc[p].status = "moved") =>
              LET n == Cardinality(FindMessages(proc[p].pre.messages, proc[p].mb.id,
                                                proc[p].query))
              IN  /\ Batched(CallsFor(p, proc[p].mb.id), n)
                  /\ Batched(CallsFor(p, proc[p].dest.id), n)
                  /\ Len(proc[p].calls) = 2 * Ceil(n, BULK_BATCH_SIZE)
                  /\ Len(journal) = proc[p].pre.jlen + 2 * n

\* more messages than one batch holds: an update and a move each flushed in more
\* than one call per mailbox, the last call not full
C26_Witness ==
    \E p \in Procs :
        /\ RanAlone(p) /\ proc[p].op = "update" /\ proc[p].status = "updated"
        /\ Len(proc[p].calls) > 1
        /\ proc[p].calls[Len(proc[p].calls)].n < BULK_BATCH_SIZE

\* a move of more messages than one batch holds
C26_WitnessMove ==
    \E p \in Procs :
        /\ RanAlone(p) /\ proc[p].op = "move" /\ proc[p].status = "moved"
        /\ Len(CallsFor(p, proc[p].dest.id)) > 1

\* an update that matched nothing made no call
C26_WitnessNone ==
    \E p \in Procs :
        /\ RanAlone(p) /\ proc[p].op = "update" /\ proc[p].status = "updated"
        /\ proc[p].pre.messages # {} /\ proc[p].calls = <<>>

\* the matched messages of a move by p that are no longer in the source
Gone(p) ==
    { m \in FindMessages(proc[p].pre.messages, proc[p].target.id, proc[p].query) :
        ~\E d \in messages : d.id = m.id /\ d.mailbox = proc[p].target.id }

\* C27: when a move that ran alone has reported a database error, the messages it
\* had moved are in the destination and not in the source, their EXPUNGE and EXISTS
\* entries are in the journal, and the messages it had not processed, in UID order
\* after the moved ones, are in the source as they were.
C27_MovePartial ==
    \A p \in Procs :
        (RanAlone(p) /\ proc[p].op = "move" /\ proc[p].status = "error") =>
            LET src == proc[p].target.id
                dst == proc[p].dest.id
                matched == FindMessages(proc[p].pre.messages, src, proc[p].query)
            IN  /\ \A m \in Gone(p) :
                      \E d \in messages \ proc[p].pre.messages :
                          /\ d.mailbox = dst /\ d.root = m.root /\ d.msgid = m.msgid
                          /\ \E i, j \in AppendedBy(p) :
                                /\ journal[i].command = "EXPUNGE"
                                /\ journal[i].mailbox = src /\ journal[i].uid = m.uid
                                /\ journal[j].command = "EXISTS"
                                /\ journal[j].mailbox = dst /\ journal[j].uid = d.uid
                /\ \A m \in matched \ Gone(p) :
                      /\ m \in messages
                      /\ \A g \in Gone(p) : g.uid < m.uid
                /\ proc[p].pre.messages \ matched \subseteq messages

\* the move failed after it had moved one message and before it had moved the last
C27_Witness ==
    \E p \in Procs :
        /\ RanAlone(p) /\ proc[p].op = "move" /\ proc[p].status = "error"
        /\ Gone(p) # {}
        /\ FindMessages(proc[p].pre.messages, proc[p].target.id, proc[p].query) \ Gone(p) # {}
        /\ Len(journal) = proc[p].pre.jlen + 2 * Cardinality(Gone(p))

\* the frames written to the stream of session sid since caller p was invoked
FramesSince(p, sid) ==
    SubSeq(streams[sid], Len(proc[p].pre.streams[sid]) + 1, Len(streams[sid]))

\* C28: a move with a session that ran alone wrote frames to the stream of that
\* session only if the session has the source mailbox selected, and then one
\* EXPUNGE frame per moved message, naming the source UID of that message and no
\* other.
C28_MoveFrames ==
    \A p \in Procs :
        ( /\ RanAlone(p) /\ proc[p].op = "move" /\ proc[p].status = "moved"
          /\ proc[p].session.id # "" ) =>
            LET sid == proc[p].session.id
                matched == FindMessages(proc[p].pre.messages, proc[p].mb.id, proc[p].query)
                expunged == SelectSeq(FramesSince(p, sid), LAMBDA f : f.command = "EXPUNGE")
            IN  /\ ~Selected(proc[p].session, proc[p].mb) => expunged = <<>>
                /\ Selected(proc[p].session, proc[p].mb) =>
                      /\ Len(expunged) = Cardinality(matched)
                      /\ \A i \in DOMAIN expunged : expunged[i].uid = <<UidsOf(matched)[i]>>

\* the document a del by p was called with was not stored when p was invoked
AlreadyGone(p) ==
    ~\E d \in proc[p].pre.messages :
        d.id = proc[p].msg.id /\ d.mailbox = proc[p].msg.mailbox /\ d.uid = proc[p].msg.uid

\* C29: a del that ran alone for a message whose document was already gone is
\* not an error and leaves storageUsed, every attachment refcount and the stored
\* messages as they were.
C29_DelIdempotent ==
    \A p \in Procs :
        (RanAlone(p) /\ proc[p].op = "del" /\ AlreadyGone(p) /\ proc[p].status # "error") =>
            /\ proc[p].err = ""
            /\ storageUsed = proc[p].pre.storageUsed
            /\ attachments = proc[p].pre.attachments
            /\ messages = proc[p].pre.messages

\* the sum of the sizes of a set of message documents
RECURSIVE SizeOf(_)
SizeOf(S) ==
    IF S = {} THEN 0
    ELSE LET m == CHOOSE x \in S : TRUE IN m.size + SizeOf(S \ {m})

\* the copies an onCopy by p that ran alone inserted
Inserted(p) == messages \ proc[p].pre.messages

\* the source or the destination of the onCopy by p did not exist at invocation
SourceMissing(p) == FindByPath(proc[p].pre.mailboxes, UserId, proc[p].target.path) = NoMb

DestinationMissing(p) == FindByPath(proc[p].pre.mailboxes, UserId, proc[p].dest.path) = NoMb

C30_WitnessCopied ==
    \E p \in Procs :
        /\ RanAlone(p) /\ proc[p].op = "copy" /\ proc[p].status = "copied"
        /\ Inserted(p) # {}

\* an onCopy that answered a sentinel
C30_WitnessSentinel ==
    \E p \in Procs :
        /\ RanAlone(p) /\ proc[p].op = "copy"
        /\ proc[p].status \in {"NONEXISTENT", "TRYCREATE"}

\* the derived booleans of m mirror its flags
Mirrors(m) ==
    /\ m.unseen = ~("\\Seen" \in m.flags)
    /\ m.undeleted = ~("\\Deleted" \in m.flags)
    /\ m.flagged = ("\\Flagged" \in m.flags)
    /\ m.draft = ("\\Draft" \in m.flags)

\* C31: in every state every stored message's unseen, undeleted, flagged and
\* draft mirror its flags.
C31_DerivedBooleans == \A m \in messages : Mirrors(m)

\* C32: in every state no stored message is searchable while it lies in a
\* \\Junk or \\Trash mailbox or while its flags contain \\Deleted.
C32_Searchable ==
    \A m \in messages :
        m.searchable =>
            /\ ~(mailboxes[m.mailbox].specialUse \in {"\\Junk", "\\Trash"})
            /\ ~("\\Deleted" \in m.flags)

\* the total byte length of a list of strings
RECURSIVE TotalBytes(_)
TotalBytes(list) == IF list = <<>> THEN 0 ELSE byteLength(Head(list)) + TotalBytes(Tail(list))

\* the non-empty parts given, and how many of them fit the budget one after another
GivenParts == SelectSeq(html.parts, LAMBDA h : h # <<>>)

Fitting ==
    CHOOSE k \in 0..Len(GivenParts) :
        /\ TotalBytes(SubSeq(GivenParts, 1, k)) <= MAX_HTML_CONTENT
        /\ k < Len(GivenParts) => TotalBytes(SubSeq(GivenParts, 1, k + 1)) > MAX_HTML_CONTENT

\* C33: the entries stored in messageData.html total at most MAX_HTML_CONTENT
\* bytes, none is empty, the parts that fit the budget are stored unchanged and
\* in order, and what is stored of the part that crosses the budget is a prefix
\* of it no longer than the budget that remained.
C33_HtmlBudget ==
    html.pc = "stored" =>
        LET remaining == MAX_HTML_CONTENT - TotalBytes(SubSeq(GivenParts, 1, Fitting))
        IN  /\ TotalBytes(html.stored) <= MAX_HTML_CONTENT
            /\ \A i \in DOMAIN html.stored : html.stored[i] # <<>>
            /\ Len(html.stored) >= Fitting
            /\ SubSeq(html.stored, 1, Fitting) = SubSeq(GivenParts, 1, Fitting)
            /\ Len(html.stored) <= Fitting + 1
            /\ Len(html.stored) = Fitting + 1 =>
                   LET cut == html.stored[Fitting + 1]
                   IN  /\ cut = substr(GivenParts[Fitting + 1], Len(cut))
                       /\ byteLength(cut) <= remaining

\* the mailbox whose counters the contract says an entry dirties: the mailbox
\* of an EXISTS or EXPUNGE entry and of a FETCH entry that marked a message
\* seen or unseen
Dirtied(e) ==
    IF e.command \in {"EXISTS", "EXPUNGE"} \/ e \in {MarkedSeen, MarkedUnseen}
    THEN {e.mailbox} ELSE {}

\* C34: once a drain that met no database error has completed, every entry
\* frame written for an EXISTS, EXPUNGE or unseen-changing FETCH entry is
\* followed by a COUNTERS event of its mailbox, and every COUNTERS event is
\* for a mailbox that an earlier entry frame dirtied.
C34_CountersPerMailbox ==
    (sse.drain.pc = "none" /\ faults = 0) =>
        /\ \A i \in DOMAIN sse.out :
              (sse.out[i].kind = "data" /\ sse.out[i].command # "COUNTERS") =>
                  \A b \in Dirtied(journal[sse.out[i].id]) :
                      \E j \in DOMAIN sse.out :
                          /\ j > i
                          /\ sse.out[j].command = "COUNTERS"
                          /\ sse.out[j].mailbox = b
        /\ \A j \in DOMAIN sse.out :
              sse.out[j].command = "COUNTERS" =>
                  \E i \in DOMAIN sse.out :
                      /\ i < j
                      /\ sse.out[i].kind = "data" /\ sse.out[i].command # "COUNTERS"
                      /\ sse.out[j].mailbox \in Dirtied(journal[sse.out[i].id])

\* C35: once the connection has ended, errored or timed out, the listener has
\* been removed exactly once and is not registered, and no step writes to the
\* response any more.
C35_ClosedIsSilent ==
    [][sse.closed => /\ sse.removed = 1
                     /\ sse.listeners = 0
                     /\ sse'.out = sse.out]_vars

\* the messages a move by p selected, as they were stored when it was invoked
SelectedForMove(p) == FindMessages(proc[p].pre.messages, proc[p].target.id, proc[p].query)

\* m, or the copy move made of it, is stored in the source or the destination
Kept(p, m) ==
    \E d \in messages :
        /\ d.root = m.root /\ d.hdate = m.hdate /\ d.msgid = m.msgid /\ d.size = m.size
        /\ d.mailbox \in {proc[p].target.id, proc[p].dest.id}

\* C36: in every state of a move that runs alone, from its invocation to its
\* callback and whatever step failed, each message it selected is stored in the
\* source mailbox or in the destination mailbox.
C36_MoveNeverLoses ==
    \A p \in Procs :
        (proc[p].op = "move" /\ proc[p].pre.valid) => \A m \in SelectedForMove(p) : Kept(p, m)

\* a move between its insertOne and its deleteOne: the message is in both mailboxes
C36_Witness ==
    \E p \in Procs :
        /\ proc[p].op = "move" /\ proc[p].pre.valid /\ proc[p].pc = "delete"
        /\ \E d, e \in messages :
              /\ d.mailbox = proc[p].target.id /\ e.mailbox = proc[p].dest.id
              /\ d.root = e.root /\ d \in SelectedForMove(p)

\* a move whose insertOne failed after it had moved a message
C36_WitnessFailed ==
    \E p \in Procs :
        /\ RanAlone(p) /\ proc[p].op = "move" /\ proc[p].status = "error"
        /\ Gone(p) # {} /\ SelectedForMove(p) \ Gone(p) # {}

\* both callers ran a move of all of INBOX to Trash, and both reported success:
\* no other handler ran, the store held FirstMessage when the first was invoked
BothMoved == \A p \in Procs : proc[p].op = "move" /\ proc[p].pc = "done" /\ proc[p].err = ""

\* C37: after two moves with the same source, destination and message set have
\* both returned, however their steps interleaved, the source message is stored
\* exactly once in the destination and the user has as many messages as before.
C37_ConcurrentMoves ==
    BothMoved =>
        /\ Cardinality({ d \in messages : d.mailbox = "m2" /\ d.root = FirstMessage.root }) = 1
        /\ Cardinality(messages) = Cardinality({FirstMessage})

\* C38: when two adds of the same message (same hdate and msgid) into the same
\* mailbox have both completed without error, however their steps interleaved,
\* the mailbox holds at most one document with that (hdate, msgid).
C38_ConcurrentAdds ==
    \A p, q \in Procs :
        ( /\ p # q
          /\ proc[p].op = "add" /\ proc[q].op = "add"
          /\ proc[p].pc = "done" /\ proc[q].pc = "done"
          /\ proc[p].err = "" /\ proc[q].err = ""
          /\ proc[p].raw = proc[q].raw /\ proc[p].mb.id = proc[q].mb.id ) =>
            Cardinality(SameMessage(messages, proc[p].mb.id, proc[p].raw)) <= 1

\* entry i was appended after the point the client resumes from, and the
\* listener has been called since
Poked(i) == sse.base < i /\ i <= sse.poked

\* the frame of entry i has been written to the response
Written(i) ==
    \E k \in DOMAIN sse.out :
        sse.out[k].kind = "data" /\ sse.out[k].command # "COUNTERS" /\ sse.out[k].id = i

\* C39: while the client stays connected and no database call fails, every
\* journal entry that was followed by a call of the listener is eventually
\* written to the response, also when the listener was called while a drain
\* was in flight.
C39_PokedIsWritten == \A i \in 1..MaxJournal : Poked(i) ~> (Written(i) \/ faults > 0)

\* the handlers the claim names
Handlers == {"add", "del", "move", "update"}

\* C40: provided every call a handler makes is answered, each invocation of add,
\* del, move and update invokes the caller's callback eventually, and never more
\* than once: the callback has run once when the handler is done, and not
\* before.
C40_CallbackOnce ==
    /\ [](\A p \in Procs :
            proc[p].op \in Handlers =>
                proc[p].callbacks = IF proc[p].pc = "done" THEN 1 ELSE 0)
    /\ \A p \in Procs :
          (proc[p].op \in Handlers) ~> (proc[p].pc = "done" /\ proc[p].callbacks = 1)

\* an add that failed after the quota was raised has rolled back, cleaned up and
\* called back once
C40_Witness ==
    \E p \in Procs :
        /\ proc[p].op = "add" /\ proc[p].pc = "done" /\ proc[p].callbacks = 1
        /\ proc[p].err # "" /\ proc[p].quota

\* a move that flushed a full batch and then met a database error has called
\* back once
C40_WitnessBatch ==
    \E p \in Procs :
        /\ proc[p].op = "move" /\ proc[p].pc = "done" /\ proc[p].callbacks = 1
        /\ proc[p].err # "" /\ proc[p].calls # <<>>

====
